---- MODULE Spec2Model ----
(***************************************************************************)
(* Credential vault, cipher adapter and gateway of the OwnTracks /         *)
(* SurrealDB data viewer.                                                  *)
(*                                                                         *)
(* Text is a sequence of Unicode code points below 65536; an element in    *)
(* 55296..57343 is an unpaired surrogate code unit of a JavaScript string.  *)
(* Bytes are sequences of 0..255.  A JavaScript object is a function from   *)
(* property names (text) to values (text).  A call that may throw returns  *)
(* [ok, val].                                                              *)
(***************************************************************************)
EXTENDS Integers, Sequences, FiniteSets, TLC

(***************************************************************************)
(* Characters and text literals.                                           *)
(***************************************************************************)
CodePoint ==
  ("{" :> 123) @@ ("}" :> 125) @@ ("\"" :> 34) @@ (":" :> 58) @@ ("," :> 44) @@
  ("\\" :> 92) @@ ("NUL" :> 0) @@ ("e-acute" :> 233) @@ ("!" :> 33) @@
  ("a" :> 97) @@ ("b" :> 98) @@ ("c" :> 99) @@ ("d" :> 100) @@ ("e" :> 101) @@
  ("i" :> 105) @@ ("l" :> 108) @@ ("m" :> 109) @@ ("n" :> 110) @@ ("o" :> 111) @@
  ("p" :> 112) @@ ("r" :> 114) @@ ("s" :> 115) @@ ("t" :> 116) @@ ("u" :> 117) @@
  ("w" :> 119) @@ ("x" :> 120) @@ ("y" :> 121) @@ ("D" :> 68) @@ ("N" :> 78) @@
  ("P" :> 80) @@ ("T" :> 84) @@ ("U" :> 85) @@ ("f" :> 102) @@
  ("_" :> 95) @@ ("0" :> 48) @@ ("1" :> 49) @@ ("2" :> 50) @@ ("-" :> 45) @@
  (" " :> 32) @@ ("LF" :> 10) @@
  ("lone-surrogate" :> 55296) @@ ("replacement" :> 65533)

Str(s) == [i \in 1..Len(s) |-> CodePoint[s[i]]]

Rep(c, n) == [i \in 1..n |-> c]

Slice(s, from, to) == [i \in 1..(IF to >= from THEN to - from + 1 ELSE 0) |-> s[from + i - 1]]

\* Concatenation of ss[lo..hi], and the sum of s[lo..hi], by halving.
RECURSIVE FlattenRange(_, _, _)
FlattenRange(ss, lo, hi) ==
  IF lo > hi THEN <<>>
  ELSE IF lo = hi THEN ss[lo]
  ELSE LET mid == (lo + hi) \div 2
       IN FlattenRange(ss, lo, mid) \o FlattenRange(ss, mid + 1, hi)

Flatten(ss) == FlattenRange(ss, 1, Len(ss))

RECURSIVE SumRange(_, _, _)
SumRange(s, lo, hi) ==
  IF lo > hi THEN 0
  ELSE IF lo = hi THEN s[lo]
  ELSE LET mid == (lo + hi) \div 2
       IN SumRange(s, lo, mid) + SumRange(s, mid + 1, hi)

SumSeq(s) == SumRange(s, 1, Len(s))

Ok(v) == [ok |-> TRUE, val |-> v]
Throw == [ok |-> FALSE, val |-> <<>>]

(***************************************************************************)
(* libsodium-wrappers: string and base64 codecs.                           *)
(***************************************************************************)
IsSurrogate(c) == c >= 55296 /\ c <= 57343

\* UTF-8 of one code point below 65536.
Utf8(c) ==
  IF c < 128 THEN <<c>>
  ELSE IF c < 2048 THEN <<192 + (c \div 64), 128 + (c % 64)>>
  ELSE <<224 + (c \div 4096), 128 + ((c \div 64) % 64), 128 + (c % 64)>>

\* sodium.from_string (TextEncoder): UTF-8 encoding; an unpaired surrogate is
\* encoded as U+FFFD.
from_string(s) ==
  Flatten([i \in 1..Len(s) |->
             IF IsSurrogate(s[i]) THEN Utf8(CodePoint["replacement"]) ELSE Utf8(s[i])])

\* sodium.to_string (TextDecoder, fatal): strict UTF-8 decoding of code points
\* below 65536; throws on malformed, overlong or surrogate sequences.
to_string(b) ==
  LET n == Len(b)
      isCont(i) == i >= 1 /\ i <= n /\ b[i] >= 128 /\ b[i] < 192
      isLead2(i) == i >= 1 /\ b[i] >= 194 /\ b[i] < 224
      isLead3(i) == i >= 1 /\ b[i] >= 224 /\ b[i] < 240
      value3(i) == (b[i] - 224) * 4096 + (b[i + 1] - 128) * 64 + (b[i + 2] - 128)
      wellFormed ==
        \A i \in 1..n :
          \/ b[i] < 128
          \/ isLead2(i) /\ isCont(i + 1)
          \/ /\ isLead3(i) /\ isCont(i + 1) /\ isCont(i + 2)
             /\ value3(i) >= 2048 /\ ~IsSurrogate(value3(i))
          \/ isCont(i) /\ (isLead2(i - 1) \/ isLead3(i - 1))
          \/ isCont(i) /\ isCont(i - 1) /\ isLead3(i - 2)
      starts == SelectSeq([i \in 1..n |-> i], LAMBDA i : ~isCont(i))
  IN IF ~wellFormed THEN Throw
     ELSE Ok([j \in 1..Len(starts) |->
                LET i == starts[j]
                IN IF b[i] < 128 THEN b[i]
                   ELSE IF b[i] < 224 THEN (b[i] - 192) * 64 + (b[i + 1] - 128)
                   ELSE value3(i)])

\* The standard base64 alphabet (base64_variants.ORIGINAL), '=' is the padding.
B64Char(v) ==
  IF v < 26 THEN 65 + v
  ELSE IF v < 52 THEN 97 + (v - 26)
  ELSE IF v < 62 THEN 48 + (v - 52)
  ELSE IF v = 62 THEN 43 ELSE 47

B64Value(c) ==
  IF c >= 65 /\ c <= 90 THEN c - 65
  ELSE IF c >= 97 /\ c <= 122 THEN c - 97 + 26
  ELSE IF c >= 48 /\ c <= 57 THEN c - 48 + 52
  ELSE IF c = 43 THEN 62
  ELSE IF c = 47 THEN 63
  ELSE -1

\* sodium.to_base64(bytes, ORIGINAL): 3 bytes -> 4 characters, padded with '='.
to_base64(b) ==
  LET n == Len(b)
      groups == (n + 2) \div 3
      byte(i) == IF i <= n THEN b[i] ELSE 0
      quad(g) ==
        LET b1 == byte(3 * g - 2)
            b2 == byte(3 * g - 1)
            b3 == byte(3 * g)
            have == n - 3 * (g - 1)
        IN <<B64Char(b1 \div 4),
             B64Char((b1 % 4) * 16 + (b2 \div 16)),
             IF have >= 2 THEN B64Char((b2 % 16) * 4 + (b3 \div 64)) ELSE 61,
             IF have >= 3 THEN B64Char(b3 % 64) ELSE 61>>
  IN [j \in 1..(4 * groups) |-> quad(((j - 1) \div 4) + 1)[((j - 1) % 4) + 1]]

\* sodium.from_base64(text, ORIGINAL): throws on a character outside the
\* alphabet, on a length that is no multiple of 4, on misplaced padding and on
\* non-zero trailing bits.
from_base64(t) ==
  LET n == Len(t)
      pad == IF n >= 2 /\ t[n] = 61 /\ t[n - 1] = 61 THEN 2
             ELSE IF n >= 1 /\ t[n] = 61 THEN 1 ELSE 0
      groups == n \div 4
      v(j) == B64Value(t[j])
      outLen == 3 * groups - pad
      triple(g) ==
        LET v1 == v(4 * g - 3)
            v2 == v(4 * g - 2)
            v3 == IF t[4 * g - 1] = 61 THEN 0 ELSE v(4 * g - 1)
            v4 == IF t[4 * g] = 61 THEN 0 ELSE v(4 * g)
        IN <<v1 * 4 + (v2 \div 16), (v2 % 16) * 16 + (v3 \div 4), (v3 % 4) * 64 + v4>>
  IN IF \/ n % 4 # 0
        \/ \E j \in 1..(n - pad) : v(j) < 0
        \/ (pad = 1 /\ v(n - 1) % 4 # 0)
        \/ (pad = 2 /\ v(n - 2) % 16 # 0)
     THEN Throw
     ELSE Ok([i \in 1..outLen |-> triple(((i - 1) \div 3) + 1)[((i - 1) % 3) + 1]])

(***************************************************************************)
(* libsodium secretbox (XSalsa20-Poly1305): ciphertext = tag || body.  The  *)
(* stream cipher is a keyed, nonce-dependent byte addition; the            *)
(* authenticator is a keyed checksum over nonce and body, which separates  *)
(* every two keys the model derives.                                       *)
(***************************************************************************)
KEYBYTES == 32
NONCEBYTES == 24
MACBYTES == 16

KeyStream(n, k, i) ==
  (k[((i - 1) % KEYBYTES) + 1] + n[((i - 1) % NONCEBYTES) + 1] + i) % 256

Authenticator(body, n, k) ==
  LET s == SumSeq(body) + Len(body)
  IN [j \in 1..MACBYTES |->
        (3 * k[2 * j - 1] + 5 * k[2 * j] + 7 * n[j] + s + j) % 256]

\* sodium.crypto_secretbox_easy(message, nonce, key)
crypto_secretbox_easy(m, n, k) ==
  LET body == [i \in 1..Len(m) |-> (m[i] + KeyStream(n, k, i)) % 256]
  IN Authenticator(body, n, k) \o body

\* sodium.crypto_secretbox_open_easy(ciphertext, nonce, key): throws on a
\* nonce of the wrong length, a ciphertext shorter than the tag, and a tag
\* that does not verify.
crypto_secretbox_open_easy(c, n, k) ==
  IF Len(n) # NONCEBYTES \/ Len(c) < MACBYTES THEN Throw
  ELSE LET body == Slice(c, MACBYTES + 1, Len(c))
       IN IF Slice(c, 1, MACBYTES) # Authenticator(body, n, k) THEN Throw
          ELSE Ok([i \in 1..Len(body) |-> (body[i] + 256 - KeyStream(n, k, i)) % 256])

(***************************************************************************)
(* JSON.stringify and JSON.parse on the values the vault handles: objects  *)
(* whose members are strings.  Property order is the declaration order of  *)
(* the Credentials interface.                                              *)
(***************************************************************************)
K_username == Str(<<"u", "s", "e", "r", "n", "a", "m", "e">>)
K_password == Str(<<"p", "a", "s", "s", "w", "o", "r", "d">>)
K_decryptionPassword ==
  Str(<<"d", "e", "c", "r", "y", "p", "t", "i", "o", "n",
        "P", "a", "s", "s", "w", "o", "r", "d">>)
K_surrealUrl == Str(<<"s", "u", "r", "r", "e", "a", "l", "U", "r", "l">>)
K_surrealNamespace ==
  Str(<<"s", "u", "r", "r", "e", "a", "l", "N", "a", "m", "e", "s", "p", "a", "c", "e">>)
K_surrealDatabase ==
  Str(<<"s", "u", "r", "r", "e", "a", "l", "D", "a", "t", "a", "b", "a", "s", "e">>)
K_surrealTable == Str(<<"s", "u", "r", "r", "e", "a", "l", "T", "a", "b", "l", "e">>)

\* interface Credentials
CredentialKeys ==
  <<K_username, K_password, K_decryptionPassword, K_surrealUrl,
    K_surrealNamespace, K_surrealDatabase, K_surrealTable>>

KeySet == {CredentialKeys[i] : i \in 1..Len(CredentialKeys)}

HexDigit(v) == IF v < 10 THEN 48 + v ELSE 97 + (v - 10)

HexValue(c) ==
  IF c >= 48 /\ c <= 57 THEN c - 48
  ELSE IF c >= 97 /\ c <= 102 THEN c - 87
  ELSE IF c >= 65 /\ c <= 70 THEN c - 55
  ELSE -1

\* The escape of one character in a JSON string literal: '"' and '\' take a
\* backslash, control characters their short escape or \u00xx, an unpaired
\* surrogate \udxxx; any other character stands for itself.
Escape(c) ==
  IF c = 34 \/ c = 92 THEN <<92, c>>
  ELSE IF c = 8 THEN <<92, 98>>
  ELSE IF c = 12 THEN <<92, 102>>
  ELSE IF c = 10 THEN <<92, 110>>
  ELSE IF c = 13 THEN <<92, 114>>
  ELSE IF c = 9 THEN <<92, 116>>
  ELSE IF c < 32 \/ IsSurrogate(c)
       THEN <<92, 117, HexDigit(c \div 4096), HexDigit((c \div 256) % 16),
              HexDigit((c \div 16) % 16), HexDigit(c % 16)>>
  ELSE <<c>>

\* Seeded fault: a string literal written without escaping.
Quote_NoEscape(s) == <<34>> \o s \o <<34>>

\* A JSON string literal.
Quote(s) == <<34>> \o Flatten([i \in 1..Len(s) |-> Escape(s[i])]) \o <<34>>

JSON_stringify(obj) ==
  LET keys == SelectSeq(CredentialKeys, LAMBDA k : k \in DOMAIN obj)
      member(i) == (IF i > 1 THEN <<44>> ELSE <<>>)
                   \o Quote(keys[i]) \o <<58>> \o Quote(obj[keys[i]])
  IN <<123>> \o Flatten([i \in 1..Len(keys) |-> member(i)]) \o <<125>>

\* The short escapes \b \f \n \r \t.
Unescape == (98 :> 8) @@ (102 :> 12) @@ (110 :> 10) @@ (114 :> 13) @@ (116 :> 9)

\* In a string literal, the index of the first quote, backslash or control
\* character at or after t[i], or Len(t) + 1: the characters before it stand
\* for themselves.
NextStop(t, i) ==
  IF \A j \in i..Len(t) : ~(t[j] = 34 \/ t[j] = 92 \/ t[j] < 32) THEN Len(t) + 1
  ELSE CHOOSE j \in i..Len(t) :
         /\ (t[j] = 34 \/ t[j] = 92 \/ t[j] < 32)
         /\ \A m \in i..(j - 1) : ~(t[m] = 34 \/ t[m] = 92 \/ t[m] < 32)

\* Scans a string literal whose opening quote is at t[i - 1]; returns the
\* unescaped text and the index after the closing quote.
RECURSIVE ScanString(_, _, _)
ScanString(t, i, acc) ==
  IF i > Len(t) THEN [ok |-> FALSE, val |-> <<>>, next |-> i]
  ELSE IF t[i] = 34 THEN [ok |-> TRUE, val |-> acc, next |-> i + 1]
  ELSE IF t[i] = 92
       THEN IF i + 1 > Len(t) THEN [ok |-> FALSE, val |-> <<>>, next |-> i]
            ELSE IF t[i + 1] \in {34, 92, 47}
                 THEN ScanString(t, i + 2, Append(acc, t[i + 1]))
            ELSE IF t[i + 1] \in DOMAIN Unescape
                 THEN ScanString(t, i + 2, Append(acc, Unescape[t[i + 1]]))
            ELSE IF /\ t[i + 1] = 117
                    /\ i + 5 <= Len(t)
                    /\ \A j \in 2..5 : HexValue(t[i + j]) >= 0
                 THEN ScanString(t, i + 6,
                                 Append(acc, HexValue(t[i + 2]) * 4096
                                             + HexValue(t[i + 3]) * 256
                                             + HexValue(t[i + 4]) * 16
                                             + HexValue(t[i + 5])))
            ELSE [ok |-> FALSE, val |-> <<>>, next |-> i]
  ELSE IF t[i] < 32 THEN [ok |-> FALSE, val |-> <<>>, next |-> i]
  ELSE ScanString(t, NextStop(t, i), acc \o Slice(t, i, NextStop(t, i) - 1))

ParseString(t, i) ==
  IF i <= Len(t) /\ t[i] = 34 THEN ScanString(t, i + 1, <<>>)
  ELSE [ok |-> FALSE, val |-> <<>>, next |-> i]

\* Members of an object, the first member starting at t[i]; obj holds the
\* members read so far (a repeated name keeps the last value).
RECURSIVE ParseMembers(_, _, _)
ParseMembers(t, i, obj) ==
  LET k == ParseString(t, i)
      v == ParseString(t, k.next + 1)
      o == [x \in (DOMAIN obj) \cup {k.val} |-> IF x = k.val THEN v.val ELSE obj[x]]
  IN IF ~k.ok \/ k.next > Len(t) \/ t[k.next] # 58 THEN Throw
     ELSE IF ~v.ok \/ v.next > Len(t) THEN Throw
     ELSE IF t[v.next] = 125
          THEN IF v.next = Len(t) THEN Ok(o) ELSE Throw
     ELSE IF t[v.next] = 44 THEN ParseMembers(t, v.next + 1, o)
     ELSE Throw

EmptyObject == [x \in {} |-> <<>>]

\* obj[k], the empty text where the object has no such member.
Field(obj, k) == IF k \in DOMAIN obj THEN obj[k] ELSE <<>>

\* JSON.parse(text): throws a SyntaxError on text that is no JSON.
JSON_parse(t) ==
  IF Len(t) < 2 \/ t[1] # 123 THEN Throw
  ELSE IF t[2] = 125 THEN (IF Len(t) = 2 THEN Ok(EmptyObject) ELSE Throw)
  ELSE ParseMembers(t, 2, EmptyObject)

(***************************************************************************)
(* JSON.parse and JSON.stringify on the values the record cipher handles:  *)
(* besides objects, the literals null, true and false, integers and        *)
(* strings.  A number is kept as its text.                                 *)
(***************************************************************************)
JsonValue(kind, val) == [kind |-> kind, val |-> val]

JsonNull == JsonValue("null", <<>>)

\* What a property read gives where there is no value.
Undefined == JsonValue("undefined", <<>>)

T_null == Str(<<"n", "u", "l", "l">>)
T_true == Str(<<"t", "r", "u", "e">>)
T_false == Str(<<"f", "a", "l", "s", "e">>)

IsDigit(c) == c >= 48 /\ c <= 57

\* An integer literal: an optional sign, then 0 or digits that do not start
\* with 0.
IsInteger(t) ==
  /\ Len(t) >= 1
  /\ \E from \in {IF t[1] = 45 THEN 2 ELSE 1} :
       /\ from <= Len(t)
       /\ \A i \in from..Len(t) : IsDigit(t[i])
       /\ (Len(t) > from => t[from] # 48)

\* A text that is one string literal and nothing else.
ParseLiteral(t, scanned) ==
  IF scanned.ok /\ scanned.next = Len(t) + 1
  THEN Ok(JsonValue("string", scanned.val))
  ELSE Throw

ParseObject(parsed) ==
  IF parsed.ok THEN Ok(JsonValue("object", parsed.val)) ELSE Throw

\* JSON.parse(text) as crypto.ts calls it: any JSON value is accepted.
JSON_parseValue(t) ==
  IF t = T_null THEN Ok(JsonNull)
  ELSE IF t = T_true THEN Ok(JsonValue("true", <<>>))
  ELSE IF t = T_false THEN Ok(JsonValue("false", <<>>))
  ELSE IF IsInteger(t) THEN Ok(JsonValue("number", t))
  ELSE IF Len(t) >= 1 /\ t[1] = 34 THEN ParseLiteral(t, ParseString(t, 1))
  ELSE ParseObject(JSON_parse(t))

\* JavaScript truthiness of a value.
Truthy(v) ==
  IF v.kind = "object" \/ v.kind = "true" THEN TRUE
  ELSE IF v.kind = "string" THEN v.val # <<>>
  ELSE IF v.kind = "number"
       THEN \E i \in 1..Len(v.val) : IsDigit(v.val[i]) /\ v.val[i] # 48
  ELSE FALSE

\* The members of an object in the order JSON.stringify writes them.  The
\* objects a record decrypts to have at most one member in this model.
MemberOrder(obj) ==
  CHOOSE order \in [1..Cardinality(DOMAIN obj) -> DOMAIN obj] :
    \A k \in DOMAIN obj : \E i \in DOMAIN order : order[i] = k

\* JSON.stringify(value, null, 2)
StringifyIndented(v) ==
  IF v.kind = "object"
  THEN IF DOMAIN v.val = {} THEN <<123, 125>>
       ELSE <<123>>
            \o Flatten([i \in 1..Cardinality(DOMAIN v.val) |->
                          (IF i > 1 THEN <<44>> ELSE <<>>) \o <<10, 32, 32>>
                          \o Quote(MemberOrder(v.val)[i]) \o <<58, 32>>
                          \o Quote(v.val[MemberOrder(v.val)[i]])])
            \o <<10, 125>>
  ELSE IF v.kind = "string" THEN Quote(v.val)
  ELSE IF v.kind = "number" THEN v.val
  ELSE IF v.kind = "true" THEN T_true
  ELSE IF v.kind = "false" THEN T_false
  ELSE T_null

(***************************************************************************)
(* src/stores/credentials.ts: the cipher functions of the vault.           *)
(***************************************************************************)
\* new Uint8Array(KEYBYTES) with the first min(len, KEYBYTES) password bytes.
Min(a, b) == IF a < b THEN a ELSE b

\* keyBuffer.set(passwordBytes.slice(0, copyLength)) on a zeroed buffer.
KeyBufferSet(passwordBytes, copyLength) ==
  [i \in 1..KEYBYTES |-> IF i <= copyLength THEN passwordBytes[i] ELSE 0]

EncryptKeyBufferOf(passwordBytes) ==
  KeyBufferSet(passwordBytes, Min(Len(passwordBytes), KEYBYTES))

EncryptKeyBuffer(password) == EncryptKeyBufferOf(from_string(password))

\* Seeded fault: one byte too few is copied into the key buffer.
DecryptKeyBufferOf_OffByOne(passwordBytes) ==
  KeyBufferSet(passwordBytes, Min(Len(passwordBytes), KEYBYTES - 1))

DecryptKeyBufferOf(passwordBytes) ==
  KeyBufferSet(passwordBytes, Min(Len(passwordBytes), KEYBYTES))

DecryptKeyBuffer(password) == DecryptKeyBufferOf(from_string(password))

\* encryptData(data, password); nonce is the value randombytes_buf returns,
\* ready is whether `await _sodium.ready` resolves.
encryptData(data, password, nonce, ready) ==
  IF ~ready THEN Throw
  ELSE Ok(to_base64(nonce \o crypto_secretbox_easy(from_string(data), nonce,
                                                    EncryptKeyBuffer(password))))

\* decryptData, lines 59-62: open the box and decode the message; a throw of
\* crypto_secretbox_open_easy propagates.
DecodeOpened(messageBytes) ==
  IF ~messageBytes.ok THEN Throw ELSE to_string(messageBytes.val)

\* decryptData, lines 55-60, on the decoded token; a throw of from_base64
\* propagates.
OpenCombined(combined, keyBuffer) ==
  IF ~combined.ok THEN Throw
  ELSE DecodeOpened(
         crypto_secretbox_open_easy(
           Slice(combined.val, NONCEBYTES + 1, Len(combined.val)),
           Slice(combined.val, 1,
                 IF Len(combined.val) < NONCEBYTES THEN Len(combined.val)
                 ELSE NONCEBYTES),
           keyBuffer))

\* Seeded fault: only the first byte of the password reaches the key.
FirstByteKeyBuffer(passwordBytes) ==
  [i \in 1..KEYBYTES |-> IF i = 1 /\ Len(passwordBytes) >= 1 THEN passwordBytes[1] ELSE 0]

decryptData_FirstByteKey(encryptedData, password, ready) ==
  IF ~ready THEN Throw
  ELSE OpenCombined(from_base64(encryptedData), FirstByteKeyBuffer(from_string(password)))

\* decryptData(encryptedData, password)
decryptData(encryptedData, password, ready) ==
  IF ~ready THEN Throw
  ELSE OpenCombined(from_base64(encryptedData), DecryptKeyBuffer(password))

(***************************************************************************)
(* src/services/crypto.ts: OwnTracksCrypto.decryptOwnTracksData.  A result *)
(* is [threw, success, data, error]: threw is a rejected promise, anything *)
(* else the DecryptionResult returned.  The error of a caught exception is *)
(* its message.                                                            *)
(***************************************************************************)
ErrTooShort == "Invalid encrypted data: too short"
MsgNullProperty == "Cannot read properties of null (reading '_type')"
MsgFromBase64 == "invalid input"
MsgOpenEasy == "wrong secret key for the given ciphertext"
MsgToString == "The encoded data was not valid."
MsgJsonParse == "Unexpected token in JSON"

K_type == Str(<<"_", "t", "y", "p", "e">>)
K_data == Str(<<"d", "a", "t", "a">>)
T_encrypted == Str(<<"e", "n", "c", "r", "y", "p", "t", "e", "d">>)

Failure(message) ==
  [threw |-> FALSE, success |-> FALSE, data |-> Undefined, error |-> message]

Rejected ==
  [threw |-> TRUE, success |-> FALSE, data |-> Undefined, error |-> "rejected"]

\* Lines 78-83: JSON.parse of the decrypted text.
ParsedResult(jsonData) ==
  IF ~jsonData.ok THEN Failure(MsgJsonParse)
  ELSE [threw |-> FALSE, success |-> TRUE, data |-> jsonData.val, error |-> "undefined"]

\* Lines 75-78: to_string of the opened box.
DecodedResult(decryptedText) ==
  IF ~decryptedText.ok THEN Failure(MsgToString)
  ELSE ParsedResult(JSON_parseValue(decryptedText.val))

\* Lines 74-75: the outcome of crypto_secretbox_open_easy.
OpenedResult(plaintext) ==
  IF ~plaintext.ok THEN Failure(MsgOpenEasy)
  ELSE DecodedResult(to_string(plaintext.val))

\* Seeded fault: an exception of from_base64 is not caught.
BytesResult_Rethrows(encryptedBytes, keyBuffer) ==
  IF ~encryptedBytes.ok THEN Rejected
  ELSE IF Len(encryptedBytes.val) < NONCEBYTES THEN Failure(ErrTooShort)
  ELSE OpenedResult(
         crypto_secretbox_open_easy(
           Slice(encryptedBytes.val, NONCEBYTES + 1, Len(encryptedBytes.val)),
           Slice(encryptedBytes.val, 1, NONCEBYTES),
           keyBuffer))

\* Lines 60-74: the decoded token is checked for its length, split and opened.
BytesResult(encryptedBytes, keyBuffer) ==
  IF ~encryptedBytes.ok THEN Failure(MsgFromBase64)
  ELSE IF Len(encryptedBytes.val) < NONCEBYTES THEN Failure(ErrTooShort)
  ELSE OpenedResult(
         crypto_secretbox_open_easy(
           Slice(encryptedBytes.val, NONCEBYTES + 1, Len(encryptedBytes.val)),
           Slice(encryptedBytes.val, 1, NONCEBYTES),
           keyBuffer))

\* Lines 54-57: the key buffer of the secret key.
SecretKeyBuffer(secretKeyBytes) ==
  KeyBufferSet(secretKeyBytes, Min(Len(secretKeyBytes), KEYBYTES))

\* Lines 53-60, with the token chosen.
TokenResult(base64Data, secretKey) ==
  BytesResult(from_base64(base64Data), SecretKeyBuffer(from_string(secretKey)))

\* Seeded fault: an envelope without _type is not unwrapped.
PayloadResult_TypedOnly(encryptedData, encryptedPayload, secretKey) ==
  IF encryptedPayload.kind = "null" THEN Failure(MsgNullProperty)
  ELSE IF encryptedPayload.kind # "object" THEN TokenResult(encryptedData, secretKey)
  ELSE IF /\ Field(encryptedPayload.val, K_type) = T_encrypted
          /\ Field(encryptedPayload.val, K_data) # <<>>
       THEN TokenResult(Field(encryptedPayload.val, K_data), secretKey)
  ELSE TokenResult(encryptedData, secretKey)

\* Lines 39-51: the token is the data member of the payload when there is a
\* non-empty one, else the input.  A property read on null throws; on a
\* string, number or boolean it gives undefined.
PayloadResult(encryptedData, encryptedPayload, secretKey) ==
  IF encryptedPayload.kind = "null" THEN Failure(MsgNullProperty)
  ELSE IF encryptedPayload.kind # "object" THEN TokenResult(encryptedData, secretKey)
  ELSE IF /\ Field(encryptedPayload.val, K_type) = T_encrypted
          /\ Field(encryptedPayload.val, K_data) # <<>>
       THEN TokenResult(Field(encryptedPayload.val, K_data), secretKey)
  ELSE IF Field(encryptedPayload.val, K_data) # <<>>
       THEN TokenResult(Field(encryptedPayload.val, K_data), secretKey)
  ELSE TokenResult(encryptedData, secretKey)

\* Lines 28-33: the input parsed as JSON, or wrapped as { data: input }.
ParsedPayload(encryptedData, parsed) ==
  IF parsed.ok THEN parsed.val
  ELSE JsonValue("object", K_data :> encryptedData)

\* decryptOwnTracksData(encryptedData, secretKey); ready is whether
\* `await this.init()`, which stands before the try block, resolves.
decryptOwnTracksData(encryptedData, secretKey, ready) ==
  IF ~ready THEN Rejected
  ELSE PayloadResult(encryptedData,
                     ParsedPayload(encryptedData, JSON_parseValue(encryptedData)),
                     secretKey)

\* formatJson(data)
formatJson(data) == StringifyIndented(data)

(***************************************************************************)
(* Inputs of the model.                                                    *)
(***************************************************************************)
NumNonces == 2
MaxPad == 1
MaxExtra == 1

\* Values randombytes_buf(NONCEBYTES) may return.
Nonces == {[i \in 1..NONCEBYTES |-> (s * i) % 256] : s \in 1..NumNonces}

\* Master passwords: a short one, the same followed by NUL characters, one of
\* exactly KEYBYTES characters, and longer ones that agree on the first
\* KEYBYTES characters.
ShortPassword == Str(<<"a">>)
LongPassword == Rep(CodePoint["a"], KEYBYTES)
Passwords ==
  {ShortPassword, LongPassword}
    \cup {ShortPassword \o Rep(CodePoint["NUL"], k) : k \in 1..MaxPad}
    \cup {LongPassword \o Rep(CodePoint[c], k) : c \in {"a", "b"}, k \in 1..MaxExtra}

BlankCredentials == [k \in KeySet |-> <<>>]

PlainCredentials ==
  [k \in KeySet |->
     IF k = K_username THEN Str(<<"u">>)
     ELSE IF k = K_password THEN Str(<<"p", "w">>)
     ELSE IF k = K_decryptionPassword THEN Str(<<"d">>)
     ELSE Str(<<"x">>)]

\* Values that need escaping in JSON, a character outside ASCII, a control
\* character and an unpaired surrogate.
QuotedCredentials ==
  [k \in KeySet |->
     IF k = K_username THEN Str(<<"a", "\"", "b">>)
     ELSE IF k = K_password THEN Str(<<"\\", "\\", "\"">>)
     ELSE IF k = K_decryptionPassword THEN Str(<<"e-acute", "d">>)
     ELSE IF k = K_surrealUrl THEN <<>>
     ELSE IF k = K_surrealNamespace THEN Str(<<"NUL", "lone-surrogate", "y">>)
     ELSE Str(<<"y">>)]

CredentialSets == {PlainCredentials, QuotedCredentials, BlankCredentials}

\* A string that is no well-formed Unicode: it ends in an unpaired surrogate.
IllFormedText == Str(<<"x", "lone-surrogate">>)

PlainTexts ==
  {JSON_stringify(c) : c \in CredentialSets}
    \cup {<<>>, Str(<<"x", "!">>), Str(<<"{", "e-acute", "}">>), IllFormedText}

(***************************************************************************)
(* encryptData, decryptData and JSON.parse on the inputs above, computed   *)
(* once; any other argument is computed by the definition itself.          *)
(***************************************************************************)
EncryptTable ==
  [d \in PlainTexts, p \in Passwords, n \in Nonces |-> encryptData(d, p, n, TRUE)]

encryptDataCached(data, password, nonce, ready) ==
  IF ready /\ data \in PlainTexts /\ password \in Passwords /\ nonce \in Nonces
  THEN EncryptTable[data, password, nonce]
  ELSE encryptData(data, password, nonce, ready)

Tokens == {EncryptTable[d, p, n].val : d \in PlainTexts, p \in Passwords, n \in Nonces}

\* A token of the vault: the serialized credential set, encrypted.
CredentialTokens ==
  {EncryptTable[JSON_stringify(c), p, n].val :
     c \in CredentialSets, p \in Passwords, n \in Nonces}

\* Contents of the persisted slot that no saveCredentials wrote: text outside
\* the base64 alphabet, a token shorter than a nonce, a token with one
\* character changed, and a valid box around text that is no JSON.
NotBase64Blob == Str(<<"a", "!", "b", "c">>)
TooShortBlob == to_base64(<<1, 2, 3>>)
NotJsonBlob == EncryptTable[Str(<<"x", "!">>), ShortPassword, CHOOSE n \in Nonces : TRUE].val
Tamper(t) == [t EXCEPT ![Len(t) - 4] = IF @ = 65 THEN 66 ELSE 65]
TamperedBlob ==
  Tamper(EncryptTable[JSON_stringify(PlainCredentials), ShortPassword,
                      CHOOSE n \in Nonces : TRUE].val)
CorruptBlobs == {NotBase64Blob, TooShortBlob, NotJsonBlob, TamperedBlob}

KnownBlobs == Tokens \cup CorruptBlobs

DecryptTable ==
  [t \in KnownBlobs, p \in Passwords |-> decryptData(t, p, TRUE)]

decryptDataCached(encryptedData, password, ready) ==
  IF ready /\ encryptedData \in KnownBlobs /\ password \in Passwords
  THEN DecryptTable[encryptedData, password]
  ELSE decryptData(encryptedData, password, ready)

StringifyTable == [c \in CredentialSets |-> JSON_stringify(c)]

JSON_stringifyCached(obj) ==
  IF obj \in CredentialSets THEN StringifyTable[obj] ELSE JSON_stringify(obj)

ParseTable == [d \in PlainTexts |-> JSON_parse(d)]

JSON_parseCached(t) == IF t \in PlainTexts THEN ParseTable[t] ELSE JSON_parse(t)

(***************************************************************************)
(* Record tokens: what the tracking app stores in the content field, and   *)
(* damaged or foreign values of that field.                                *)
(***************************************************************************)
RecordPassword == Str(<<"d">>)
OtherRecordPassword == Str(<<"e-acute", "d">>)
RecordPasswords == {RecordPassword, OtherRecordPassword}

RecordNonce == CHOOSE n \in Nonces : TRUE

LocationText ==
  Str(<<"{", "\"", "_", "t", "y", "p", "e", "\"", ":",
        "\"", "l", "o", "c", "a", "t", "i", "o", "n", "\"", "}">>)

\* base64(nonce || secretbox(bytes)) under the key buffer of a password.
SealBytes(bytes, password) ==
  to_base64(RecordNonce
            \o crypto_secretbox_easy(bytes, RecordNonce,
                                     SecretKeyBuffer(from_string(password))))

LocationToken == SealBytes(from_string(LocationText), RecordPassword)
OtherLocationToken == SealBytes(from_string(LocationText), OtherRecordPassword)
NullTextToken == SealBytes(from_string(T_null), RecordPassword)
NotJsonToken == SealBytes(from_string(Str(<<"x", "!">>)), RecordPassword)
NotUtf8Token == SealBytes(<<255>>, RecordPassword)
TamperedToken == Tamper(LocationToken)
DigitsToken == Str(<<"1", "2", "0", "2">>)

RecordTokens ==
  {LocationToken, OtherLocationToken, NullTextToken, NotJsonToken, NotUtf8Token,
   TamperedToken, DigitsToken, NotBase64Blob, TooShortBlob, T_null, T_true, <<>>}

\* The three shapes of the input: the token itself, and the token as the data
\* member of a JSON envelope with or without _type.
Forms == {"raw", "typed", "bare"}

Envelope(form, token) ==
  IF form = "raw" THEN token
  ELSE <<123>>
       \o (IF form = "typed"
           THEN Quote(K_type) \o <<58>> \o Quote(T_encrypted) \o <<44>>
           ELSE <<>>)
       \o Quote(K_data) \o <<58>> \o Quote(token) \o <<125>>

DecryptInputs == {Envelope(f, t) : f \in Forms, t \in RecordTokens}

OwnTracksTable ==
  [i \in DecryptInputs, k \in RecordPasswords |-> decryptOwnTracksData(i, k, TRUE)]

decryptOwnTracksDataCached(encryptedData, secretKey, ready) ==
  IF ready /\ encryptedData \in DecryptInputs /\ secretKey \in RecordPasswords
  THEN OwnTracksTable[encryptedData, secretKey]
  ELSE decryptOwnTracksData(encryptedData, secretKey, ready)

\* formatJson on the data of the results above, computed once.
FormatTable ==
  [data \in {OwnTracksTable[x].data : x \in DOMAIN OwnTracksTable} |-> formatJson(data)]

formatJsonCached(data) ==
  IF data \in DOMAIN FormatTable THEN FormatTable[data] ELSE formatJson(data)

(***************************************************************************)
(* State.                                                                  *)
(***************************************************************************)
VARIABLES
  store,        \* useCredentialsStore state: encryptedData, credentials, isLoaded, error
  sodiumReady,  \* whether the promise _sodium.ready resolves (it rejects otherwise)
  connected,    \* SurrealDBService.connected
  call,         \* the last operation called: its name, arguments and outcome
  hist,         \* the last write to the persisted slot: initial, saved (with the
                \* credentials and master password) or cleared
  cipher,       \* one encryptData / decryptData application (SpecCipher)
  crypto,       \* one decryptOwnTracksData application (SpecDecrypt)
  view,         \* OwnTracksData.vue with its useOwnTracks state: records, device
                \* windows, outcome map, batch runs and pending continuations
  feed          \* the live queries: SurrealDBService.liveQueries, the queries the
                \* database holds, and the calls of the composable in flight

vars == <<store, sodiumReady, connected, call, hist, cipher, crypto, view, feed>>

NoError == "null"
ErrNoStored == "No stored credentials found"
ErrIncorrect == "Failed to decrypt credentials. Incorrect password?"
ErrSodium == "sodium is not ready"

(***************************************************************************)
(* src/stores/credentials.ts: the actions of the store, as functions of    *)
(* the store state.  `await _sodium.ready` settles without another handler *)
(* running in between, so each call is one step.                           *)
(***************************************************************************)
\* saveCredentials, lines 93-102, with the credentials assigned (s1) and the
\* outcome of encryptData.
SaveEncrypted_StoresPlain(s1, dataStr, enc) ==
  IF enc.ok
  THEN [store |-> [s1 EXCEPT !.encryptedData = dataStr,
                             !.isLoaded = TRUE,
                             !.error = NoError],
        ret |-> "true"]
  ELSE [store |-> [s1 EXCEPT !.error = ErrSodium], ret |-> "false"]

\* Seeded fault: a failed save marks the vault as loaded.
SaveEncrypted_LoadsOnFailure(s1, dataStr, enc) ==
  IF enc.ok
  THEN [store |-> [s1 EXCEPT !.encryptedData = enc.val,
                             !.isLoaded = TRUE,
                             !.error = NoError],
        ret |-> "true"]
  ELSE [store |-> [s1 EXCEPT !.error = ErrSodium, !.isLoaded = TRUE], ret |-> "false"]

SaveEncrypted(s1, dataStr, enc) ==
  IF enc.ok
  THEN [store |-> [s1 EXCEPT !.encryptedData = enc.val,
                             !.isLoaded = TRUE,
                             !.error = NoError],
        ret |-> "true"]
  ELSE [store |-> [s1 EXCEPT !.error = ErrSodium], ret |-> "false"]

\* saveCredentials, lines 92-93: serialize, then encrypt.
SaveSerialized(s1, dataStr, masterPassword, nonce, ready) ==
  SaveEncrypted(s1, dataStr, encryptDataCached(dataStr, masterPassword, nonce, ready))

saveCredentials(st, credentials, masterPassword, nonce, ready) ==
  SaveSerialized([st EXCEPT !.credentials = credentials],
                 JSON_stringifyCached(credentials), masterPassword, nonce, ready)

\* loadCredentials, lines 122-126: the catch clause.
LoadCatch_BlanksCredentials(st) ==
  [store |-> [st EXCEPT !.credentials = [k \in KeySet |-> <<>>],
                        !.error = ErrIncorrect,
                        !.isLoaded = FALSE],
   ret |-> "false", decryptCalled |-> TRUE]

LoadCatch(st) ==
  [store |-> [st EXCEPT !.error = ErrIncorrect, !.isLoaded = FALSE],
   ret |-> "false", decryptCalled |-> TRUE]

\* loadCredentials, lines 114-121, with the outcome of JSON.parse.
LoadParsed_DistinctError(st, decryptedData) ==
  IF ~decryptedData.ok
  THEN [store |-> [st EXCEPT !.error = "Stored credentials are corrupt",
                             !.isLoaded = FALSE],
        ret |-> "false", decryptCalled |-> TRUE]
  ELSE [store |-> [st EXCEPT !.credentials = decryptedData.val,
                             !.isLoaded = TRUE,
                             !.error = NoError],
        ret |-> "true", decryptCalled |-> TRUE]

LoadParsed(st, decryptedData) ==
  IF ~decryptedData.ok THEN LoadCatch(st)
  ELSE [store |-> [st EXCEPT !.credentials = decryptedData.val,
                             !.isLoaded = TRUE,
                             !.error = NoError],
        ret |-> "true", decryptCalled |-> TRUE]

\* loadCredentials, lines 113-114, with the outcome of decryptData.
LoadDecrypted(st, decryptedStr) ==
  IF ~decryptedStr.ok THEN LoadCatch(st)
  ELSE LoadParsed(st, JSON_parseCached(decryptedStr.val))

\* Seeded fault: the check for an empty persisted slot is missing.
loadCredentials_NoEmptyCheck(st, masterPassword, ready) ==
  LoadDecrypted(st, decryptDataCached(st.encryptedData, masterPassword, ready))

loadCredentials(st, masterPassword, ready) ==
  IF st.encryptedData = <<>>
  THEN [store |-> [st EXCEPT !.error = ErrNoStored],
        ret |-> "false", decryptCalled |-> FALSE]
  ELSE LoadDecrypted(st, decryptDataCached(st.encryptedData, masterPassword, ready))

\* Seeded fault: the persisted slot is not emptied.
clearCredentials_KeepsBlob(st) ==
  [st EXCEPT !.credentials = BlankCredentials,
             !.isLoaded = FALSE,
             !.error = NoError]

clearCredentials(st) ==
  [st EXCEPT !.credentials = BlankCredentials,
             !.encryptedData = <<>>,
             !.isLoaded = FALSE,
             !.error = NoError]

hasStoredCredentials(st) == st.encryptedData # <<>>

(***************************************************************************)
(* The record of the last call.                                            *)
(***************************************************************************)
NoCall ==
  [op |-> "none", pw |-> <<>>, ret |-> "void", decryptCalled |-> FALSE,
   readCredentials |-> FALSE, reachedDb |-> FALSE, reachedCipher |-> FALSE]

VaultCall(op, pw, ret, decryptCalled) ==
  [NoCall EXCEPT !.op = op, !.pw = pw, !.ret = ret, !.decryptCalled = decryptCalled]

GatewayCall(op, ret, readCredentials, reachedDb) ==
  [NoCall EXCEPT !.op = op, !.ret = ret,
                 !.readCredentials = readCredentials, !.reachedDb = reachedDb]

PipelineCall(op, readCredentials, reachedCipher) ==
  [NoCall EXCEPT !.op = op, !.readCredentials = readCredentials,
                 !.reachedCipher = reachedCipher]

NoHist == [state |-> "initial", credentials |-> BlankCredentials, pw |-> <<>>]

CipherIdle ==
  [phase |-> "idle", data |-> <<>>, password |-> <<>>, nonce |-> <<>>,
   token |-> <<>>, password2 |-> <<>>, out |-> Throw]

CryptoIdle ==
  [phase |-> "idle", token |-> <<>>, form |-> "raw", encryptedData |-> <<>>,
   secretKey |-> <<>>, out |-> Rejected]

(***************************************************************************)
(* The state of one OwnTracksData.vue component and of its useOwnTracks()  *)
(* composable.  A raw record has an id ("" where the row has none), the    *)
(* device field, the content field (<<>> where the row has none), the      *)
(* timestamp field, and lat and lon: the coordinates, in thousandths of a   *)
(* degree, of the point its content decrypts to.  The points are on the    *)
(* equator unless said otherwise.                                          *)
(***************************************************************************)
RawRecord(id, device, content, tst, lon) ==
  [id |-> id, device |-> device, content |-> content, tst |-> tst, lat |-> 0,
   lon |-> lon]

\* A record whose content decrypts to a point off the equator.
Located(r, lat) == [r EXCEPT !.lat = lat]

\* state.trackedDevices, in the order getTrackedDevices returned them.
TrackedDevices == <<"d1", "d2">>

Devices == {TrackedDevices[i] : i \in 1..Len(TrackedDevices)}

\* new Map(): decryptionResults without entries.
NoOutcomes == [id \in {} |-> [success |-> FALSE, error |-> ""]]

\* {}: state.devicePoints and state.filteredPoints without keys.
NoPoints == [d \in {} |-> <<>>]

\* The record of the last step of the component: the handler, the run it
\* belongs to, the records it passed to tryDecryptItem, whether the vault was
\* unlocked with a decryption password, the ids whose outcome it wrote, and
\* whether a batch run moved to its next batch.
NoStep ==
  [op |-> "none", epoch |-> 0, items |-> <<>>, unlocked |-> FALSE, wrote |-> {},
   advanced |-> FALSE, record |-> RawRecord("", "", <<>>, 0, 0)]

ViewIdle ==
  [data |-> <<>>,                  \* state.data
   devicePoints |-> NoPoints,      \* state.devicePoints
   filteredPoints |-> NoPoints,    \* state.filteredPoints
   loading |-> FALSE,              \* state.loading
   decryptionResults |-> NoOutcomes,
   isDecrypting |-> FALSE,
   runs |-> {},       \* batch runs with a pending setTimeout: [epoch, currentIndex]
   fetching |-> FALSE,  \* fetchLastPointsForAllDevices is between two awaits
   todo |-> <<>>,     \* the devices its loop has still to fetch
   db |-> {},         \* the rows of the table
   epoch |-> 0,       \* the number of bulk refreshes started
   writer |-> [id \in {} |-> 0],  \* for each outcome, the refresh that wrote it
   arrivals |-> 0,    \* the number of live arrivals handled
   fetches |-> 0,     \* the number of calls of fetchLastPointsForAllDevices
   arrived |-> NoPoints,  \* per device, the live arrivals since its window was set
   base |-> NoPoints,     \* per device, the rows the last fetch put in its window
   live |-> {},       \* the live arrivals since fetchLastPointsForAllDevices began
   last |-> NoStep]

(***************************************************************************)
(* Vault actions.                                                          *)
(***************************************************************************)
SaveCredentials ==
  \E credentials \in CredentialSets, masterPassword \in Passwords, nonce \in Nonces :
    \E r \in {saveCredentials(store, credentials, masterPassword, nonce, sodiumReady)} :
       /\ store' = r.store
       /\ call' = VaultCall("saveCredentials", masterPassword, r.ret, FALSE)
       /\ hist' = IF r.ret = "true"
                  THEN [state |-> "saved", credentials |-> credentials,
                        pw |-> masterPassword]
                  ELSE hist
       /\ UNCHANGED <<sodiumReady, connected, cipher, crypto, view, feed>>

LoadCredentials ==
  \E masterPassword \in Passwords :
    \E r \in {loadCredentials(store, masterPassword, sodiumReady)} :
       /\ store' = r.store
       /\ call' = VaultCall("loadCredentials", masterPassword, r.ret, r.decryptCalled)
       /\ UNCHANGED <<sodiumReady, connected, hist, cipher, crypto, view, feed>>

ClearCredentials ==
  /\ store' = clearCredentials(store)
  /\ call' = VaultCall("clearCredentials", <<>>, "void", FALSE)
  /\ hist' = [NoHist EXCEPT !.state = "cleared"]
  /\ UNCHANGED <<sodiumReady, connected, cipher, crypto, view, feed>>

HasStoredCredentials ==
  /\ call' = VaultCall("hasStoredCredentials", <<>>,
                       IF hasStoredCredentials(store) THEN "true" ELSE "false", FALSE)
  /\ UNCHANGED <<store, sodiumReady, connected, hist, cipher, crypto, view, feed>>

(***************************************************************************)
(* SurrealDBService: connection and the calls that go to the database.     *)
(* dbOk is whether the database client's call returns (it throws           *)
(* otherwise).  The rows a query returns and the live-query handles are    *)
(* not part of this state.                                                 *)
(***************************************************************************)
GatewayRequests ==
  {"queryEncryptedOwnTracksData", "queryEncryptedOwnTracksDataByDevice",
   "queryEncryptedOwnTracksDataByDateRange", "queryEncryptedOwnTracksDataWithFilters",
   "getTrackedDevices", "getLastPointsForDevice", "liveSelectForDevice"}

\* connect(): throws before any database call when the vault is not loaded.
connect(st, conn, dbOk) ==
  IF ~st.isLoaded
  THEN [connected |-> conn, ret |-> "threw", readCredentials |-> FALSE, reachedDb |-> FALSE]
  ELSE IF dbOk
  THEN [connected |-> TRUE, ret |-> "ok", readCredentials |-> TRUE, reachedDb |-> TRUE]
  ELSE [connected |-> conn, ret |-> "threw", readCredentials |-> TRUE, reachedDb |-> TRUE]

\* disconnect()
disconnect(conn, dbOk) ==
  IF conn
  THEN [connected |-> ~dbOk, ret |-> IF dbOk THEN "ok" ELSE "threw", reachedDb |-> TRUE]
  ELSE [connected |-> conn, ret |-> "ok", reachedDb |-> FALSE]

\* The query functions, getTrackedDevices, getLastPointsForDevice and
\* liveSelectForDevice: connect first when not connected, then read
\* credentials.surrealTable and call the database.
request(st, conn, connectOk, dbOk) ==
  LET c == IF conn
           THEN [connected |-> conn, ret |-> "ok",
                 readCredentials |-> FALSE, reachedDb |-> FALSE]
           ELSE connect(st, conn, connectOk)
  IN IF c.ret = "threw" THEN c
     ELSE [connected |-> c.connected, ret |-> IF dbOk THEN "ok" ELSE "threw",
           readCredentials |-> TRUE, reachedDb |-> TRUE]

GatewayConnect ==
  \E dbOk \in BOOLEAN :
    \E r \in {connect(store, connected, dbOk)} :
       /\ connected' = r.connected
       /\ call' = GatewayCall("connect", r.ret, r.readCredentials, r.reachedDb)
       /\ UNCHANGED <<store, sodiumReady, hist, cipher, crypto, view, feed>>

GatewayDisconnect ==
  \E dbOk \in BOOLEAN :
    \E r \in {disconnect(connected, dbOk)} :
       /\ connected' = r.connected
       /\ call' = GatewayCall("disconnect", r.ret, FALSE, r.reachedDb)
       /\ UNCHANGED <<store, sodiumReady, hist, cipher, crypto, view, feed>>

GatewayRequest ==
  \E op \in GatewayRequests, connectOk \in BOOLEAN, dbOk \in BOOLEAN :
    \E r \in {request(store, connected, connectOk, dbOk)} :
       /\ connected' = r.connected
       /\ call' = GatewayCall(op, r.ret, r.readCredentials, r.reachedDb)
       /\ UNCHANGED <<store, sodiumReady, hist, cipher, crypto, view, feed>>

(***************************************************************************)
(* OwnTracksData.vue: tryDecryptItem.  hasContent is whether the item has  *)
(* an id and a content value.  The outcome of the record decryption is not *)
(* part of this state.                                                     *)
(***************************************************************************)
tryDecryptItem(st, hasContent) ==
  IF ~hasContent
  THEN [readCredentials |-> FALSE, reachedCipher |-> FALSE]
  ELSE IF ~st.isLoaded
  THEN [readCredentials |-> FALSE, reachedCipher |-> FALSE]
  ELSE IF Field(st.credentials, K_decryptionPassword) = <<>>
  THEN [readCredentials |-> TRUE, reachedCipher |-> FALSE]
  ELSE [readCredentials |-> TRUE, reachedCipher |-> TRUE]

TryDecryptItem ==
  \E hasContent \in BOOLEAN :
    \E r \in {tryDecryptItem(store, hasContent)} :
       /\ call' = PipelineCall("tryDecryptItem", r.readCredentials, r.reachedCipher)
       /\ UNCHANGED <<store, sodiumReady, connected, hist, cipher, crypto, view, feed>>

(***************************************************************************)
(* OwnTracksData.vue: the outcome map.  Every await of tryDecryptItem      *)
(* (await this.init() in decryptOwnTracksData) settles in a microtask, so  *)
(* no timer, network message or user handler runs between the call of      *)
(* tryDecryptItem and its write to decryptionResults: the calls of one     *)
(* handler are part of its step.                                           *)
(***************************************************************************)
BatchSize == 5

SetOutcome(results, id, outcome) ==
  [x \in (DOMAIN results) \cup {id} |-> IF x = id THEN outcome ELSE results[x]]

\* tryDecryptItem, lines 465-475: the outcome stored for a result.
OutcomeOf(result) ==
  IF result.success /\ Truthy(result.data)
  THEN [success |-> TRUE, data |-> formatJsonCached(result.data)]
  ELSE [success |-> FALSE,
        error |-> IF result.error # "undefined" /\ result.error # ""
                  THEN result.error ELSE "Unknown decryption error"]

\* Seeded fault: a failed decryption is not recorded.
StoreResult_SkipsFailure(results, id, result) ==
  IF result.threw \/ ~result.success THEN results
  ELSE SetOutcome(results, id, OutcomeOf(result))

\* tryDecryptItem, lines 463-475, with the result of decryptOwnTracksData; a
\* rejected call writes nothing.
StoreResult(results, id, result) ==
  IF result.threw THEN results
  ELSE SetOutcome(results, id, OutcomeOf(result))

\* Whether tryDecryptItem(item) calls the cipher.
Attempts(st, item) ==
  tryDecryptItem(st, item.content # <<>> /\ item.id # "").reachedCipher

\* decryptionResults once tryDecryptItem(item) has settled.
DecryptInto(results, st, item, ready) ==
  IF ~Attempts(st, item) THEN results
  ELSE StoreResult(results, item.id,
                   decryptOwnTracksDataCached(item.content,
                                              Field(st.credentials, K_decryptionPassword),
                                              ready))

\* tryDecryptItem on items[from..to], one after the other: r is the map
\* after items[from].
RECURSIVE DecryptRange(_, _, _, _, _, _)
DecryptRange(results, st, items, from, to, ready) ==
  IF from > to THEN results
  ELSE CHOOSE out \in {DecryptRange(r, st, items, from + 1, to, ready) :
                         r \in {DecryptInto(results, st, items[from], ready)}} : TRUE

\* The ids under which tryDecryptItem on items[from..to] writes.
WrittenIds(st, items, from, to, ready) ==
  {items[i].id : i \in {j \in from..to : ready /\ Attempts(st, items[j])}}

Unlocked(st) == st.isLoaded /\ Field(st.credentials, K_decryptionPassword) # <<>>

\* The writer of each outcome after a step of refresh `epoch` wrote `wrote`.
WriterAfter(writer, results, wrote, epoch) ==
  [id \in DOMAIN results |->
     IF id \in wrote THEN epoch
     ELSE IF id \in DOMAIN writer THEN writer[id] ELSE epoch]

\* processNextBatch, line 519: endIndex.
BatchEnd(data, currentIndex) == Min(currentIndex + BatchSize, Len(data))

\* processNextBatch, lines 519-529, with endIndex.
ProcessBatch(v, st, run, endIndex, ready) ==
  [v EXCEPT
     !.decryptionResults =
        DecryptRange(@, st, v.data, run.currentIndex + 1, endIndex, ready),
     !.writer =
        WriterAfter(@,
                    DecryptRange(v.decryptionResults, st, v.data,
                                 run.currentIndex + 1, endIndex, ready),
                    WrittenIds(st, v.data, run.currentIndex + 1, endIndex, ready),
                    run.epoch),
     !.runs = (@ \ {run}) \cup {[run EXCEPT !.currentIndex = endIndex]},
     !.last = [NoStep EXCEPT
                 !.op = "processNextBatch",
                 !.epoch = run.epoch,
                 !.items = Slice(v.data, run.currentIndex + 1, endIndex),
                 !.unlocked = Unlocked(st),
                 !.wrote = WrittenIds(st, v.data, run.currentIndex + 1, endIndex, ready),
                 !.advanced = TRUE]]

\* Seeded fault: a record whose decryption fails ends the run where it is.
processNextBatch_AbortsOnFailure(v, st, run, ready) ==
  IF run.currentIndex >= Len(v.data)
  THEN [v EXCEPT !.isDecrypting = FALSE,
                 !.runs = @ \ {run},
                 !.last = [NoStep EXCEPT !.op = "processNextBatch",
                                         !.epoch = run.epoch,
                                         !.unlocked = Unlocked(st)]]
  ELSE IF \E i \in (run.currentIndex + 1)..BatchEnd(v.data, run.currentIndex) :
            /\ Attempts(st, v.data[i])
            /\ ~decryptOwnTracksDataCached(
                  v.data[i].content, Field(st.credentials, K_decryptionPassword),
                  ready).success
  THEN [v EXCEPT !.runs = @ \ {run},
                 !.last = [NoStep EXCEPT !.op = "processNextBatch",
                                         !.epoch = run.epoch,
                                         !.unlocked = Unlocked(st)]]
  ELSE ProcessBatch(v, st, run, BatchEnd(v.data, run.currentIndex), ready)

\* processNextBatch of one run, lines 513-530.
processNextBatch(v, st, run, ready) ==
  IF run.currentIndex >= Len(v.data)
  THEN [v EXCEPT !.isDecrypting = FALSE,
                 !.runs = @ \ {run},
                 !.last = [NoStep EXCEPT !.op = "processNextBatch",
                                         !.epoch = run.epoch,
                                         !.unlocked = Unlocked(st)]]
  ELSE ProcessBatch(v, st, run, BatchEnd(v.data, run.currentIndex), ready)

\* startIncrementalDecryption, lines 499-538: the first batch runs in the call.
startIncrementalDecryption(v, st, ready) ==
  IF ~Unlocked(st) \/ Len(v.data) = 0 THEN v
  ELSE processNextBatch(
         [v EXCEPT !.isDecrypting = TRUE,
                   !.decryptionResults = NoOutcomes,
                   !.writer = [id \in {} |-> 0],
                   !.epoch = @ + 1,
                   !.runs = @ \cup {[epoch |-> v.epoch + 1, currentIndex |-> 0]}],
         st, [epoch |-> v.epoch + 1, currentIndex |-> 0], ready)

\* watch(() => state.data), lines 541-545.
OnData(v, st, ready) ==
  IF Len(v.data) > 0 THEN startIncrementalDecryption(v, st, ready) ELSE v

\* The points of all windows, device after device.  The order of the keys of
\* state.devicePoints does not change what the loops below compute.
AllPoints(devicePoints) ==
  Flatten([i \in 1..Len(TrackedDevices) |->
             IF TrackedDevices[i] \in DOMAIN devicePoints
             THEN devicePoints[TrackedDevices[i]] ELSE <<>>])

\* processDevicePoints, lines 573-586, on the points of all windows.
ProcessPoints(v, st, points, ready) ==
  [v EXCEPT
     !.decryptionResults = DecryptRange(NoOutcomes, st, points, 1, Len(points), ready),
     !.writer =
        WriterAfter([id \in {} |-> 0],
                    DecryptRange(NoOutcomes, st, points, 1, Len(points), ready),
                    WrittenIds(st, points, 1, Len(points), ready),
                    v.epoch + 1),
     !.epoch = @ + 1,
     !.last = [v.last EXCEPT
                 !.epoch = v.epoch + 1,
                 !.items = points,
                 !.unlocked = Unlocked(st),
                 !.wrote = WrittenIds(st, points, 1, Len(points), ready)]]

processDevicePoints(v, st, ready) ==
  ProcessPoints(v, st, AllPoints(v.devicePoints), ready)

\* watch(() => state.devicePoints, { deep: true }), lines 589-593.
OnDevicePoints(v, st, ready) ==
  IF DOMAIN v.devicePoints # {} THEN processDevicePoints(v, st, ready) ELSE v

(***************************************************************************)
(* useOwnTracks: device windows and the distance filter.  Coordinates are  *)
(* in thousandths of a degree, distances in metres.                        *)
(***************************************************************************)
WindowCap == 5
MaxDistance == 150
MetresPerDegree == 111195

Abs(x) == IF x < 0 THEN -x ELSE x

\* surrealService.calculateDistance: the haversine distance R * c.  Between
\* two points of one meridian, and between two points of the equator, c is
\* the difference of the coordinates in radians; the model has no other
\* pairs of points.
calculateDistance(lat1, lon1, lat2, lon2) ==
  IF lon1 = lon2 THEN (MetresPerDegree * Abs(lat2 - lat1)) \div 1000
  ELSE (MetresPerDegree * Abs(lon2 - lon1)) \div 1000

\* filterPointsByDistance, lines 172-189: the loop over points[i..], with the
\* points kept so far.  The coordinates passed are the placeholders 0.
RECURSIVE FilterFrom(_, _, _)
FilterFrom(points, i, filteredPoints) ==
  IF i > Len(points) THEN filteredPoints
  ELSE FilterFrom(points, i + 1,
                  IF calculateDistance(0, 0, 0, 0) <= MaxDistance
                  THEN Append(filteredPoints, points[i])
                  ELSE filteredPoints)

\* filterPointsByDistance(): state.filteredPoints.
filterPointsByDistance(devicePoints) ==
  [d \in {x \in DOMAIN devicePoints : Len(devicePoints[x]) > 0} |->
     FilterFrom(devicePoints[d], 2, <<devicePoints[d][1]>>)]

SetPoints(devicePoints, d, points) ==
  [x \in (DOMAIN devicePoints) \cup {d} |-> IF x = d THEN points ELSE devicePoints[x]]

PointsOf(devicePoints, d) == IF d \in DOMAIN devicePoints THEN devicePoints[d] ELSE <<>>

\* Seeded fault: the window is not cut to its cap.
Unshifted_NoCap(points, newPoint) == <<newPoint>> \o points

\* handleNewPoint, lines 227-232: unshift, then slice(0, 5).
Unshifted(points, newPoint) ==
  IF Len(<<newPoint>> \o points) > WindowCap
  THEN Slice(<<newPoint>> \o points, 1, WindowCap)
  ELSE <<newPoint>> \o points

\* handleNewPoint with the new window of the device.
WithWindow(v, deviceId, points) ==
  [v EXCEPT !.devicePoints = SetPoints(@, deviceId, points),
            !.filteredPoints =
               filterPointsByDistance(SetPoints(v.devicePoints, deviceId, points))]

\* handleNewPoint(deviceId, newPoint), lines 220-236.
handleNewPoint(v, deviceId, newPoint) ==
  WithWindow(v, deviceId, Unshifted(PointsOf(v.devicePoints, deviceId), newPoint))

\* The rows of a device with a content, newest timestamp first.
RECURSIVE Newest(_, _)
Newest(rows, n) ==
  IF n = 0 \/ rows = {} THEN <<>>
  ELSE <<CHOOSE r \in rows : \A o \in rows : o.tst <= r.tst>>
       \o Newest(rows \ {CHOOSE r \in rows : \A o \in rows : o.tst <= r.tst}, n - 1)

\* getLastPointsForDevice(deviceId, limit): the rows the query returns.
getLastPointsForDevice(db, deviceId, limit) ==
  Newest({r \in db : r.device = deviceId /\ r.content # <<>>}, limit)

\* fetchLastPointsForAllDevices, lines 141-143: up to the first await.
FetchBegin(v) ==
  [v EXCEPT !.loading = TRUE,
            !.devicePoints = NoPoints,
            !.fetching = TRUE,
            !.fetches = @ + 1,
            !.todo = TrackedDevices,
            !.arrived = NoPoints,
            !.base = NoPoints,
            !.live = {},
            !.last = [NoStep EXCEPT !.op = "fetchLastPointsForAllDevices"]]

\* Lines 148-153 and 157: the points of the first device of todo arrive and
\* are assigned; after the last device the filter runs and loading ends.
FetchAssign(v, points) ==
  [v EXCEPT !.devicePoints = SetPoints(@, Head(v.todo), points),
            !.base = SetPoints(@, Head(v.todo), points),
            !.arrived = SetPoints(@, Head(v.todo), <<>>),
            !.todo = Tail(@),
            !.fetching = Len(v.todo) > 1,
            !.loading = Len(v.todo) > 1,
            !.filteredPoints =
               IF Len(v.todo) > 1 THEN @
               ELSE filterPointsByDistance(SetPoints(v.devicePoints, Head(v.todo), points)),
            !.last = [NoStep EXCEPT !.op = IF Len(v.todo) > 1 THEN "assigned" ELSE "fetched"]]

\* Lines 154-158: the query threw; the loop ends without the filter.
FetchCatch(v) ==
  [v EXCEPT !.todo = <<>>, !.fetching = FALSE, !.loading = FALSE,
            !.last = [NoStep EXCEPT !.op = "fetch failed"]]

\* Seeded fault: the kept points are pushed onto the previous output.
Recomputed_Accumulates(v) ==
  [v EXCEPT !.filteredPoints =
              [d \in DOMAIN filterPointsByDistance(v.devicePoints) |->
                 PointsOf(v.filteredPoints, d) \o filterPointsByDistance(v.devicePoints)[d]],
            !.last = [NoStep EXCEPT !.op = "filterPointsByDistance"]]

\* filterPointsByDistance() called by a user of the composable, lines
\* 162-193: state.filteredPoints is emptied and rebuilt from the windows.
Recomputed(v) ==
  [v EXCEPT !.filteredPoints = filterPointsByDistance(v.devicePoints),
            !.last = [NoStep EXCEPT !.op = "filterPointsByDistance"]]

(***************************************************************************)
(* Live queries: SurrealDBService.liveQueries with liveSelectForDevice and *)
(* closeAllLiveQueries, and setupLiveUpdates / stopLiveUpdates of the      *)
(* composable.  A call runs up to its next await of the database; what     *)
(* follows the answer of the database is one step.                         *)
(***************************************************************************)
MaxCalls == 2
MaxLiveEvents == 1

ErrGateway == "gateway error"

\* An entry of the Map liveQueries.  The entries keep their insertion order;
\* delete and clear empty an entry in place, so that an iterator in use
\* goes on behind it.
Entry(deviceId, uuid) == [device |-> deviceId, uuid |-> uuid]
Tombstone == Entry("", 0)

MapHas(entries, deviceId) == \E i \in 1..Len(entries) : entries[i].device = deviceId

MapGet(entries, deviceId) ==
  entries[CHOOSE i \in 1..Len(entries) : entries[i].device = deviceId].uuid

MapDelete(entries, deviceId) ==
  [i \in 1..Len(entries) |->
     IF entries[i].device = deviceId THEN Tombstone ELSE entries[i]]

MapSet(entries, deviceId, uuid) ==
  IF MapHas(entries, deviceId)
  THEN [i \in 1..Len(entries) |->
          IF entries[i].device = deviceId THEN Entry(deviceId, uuid) ELSE entries[i]]
  ELSE Append(entries, Entry(deviceId, uuid))

MapClear(entries) == [i \in 1..Len(entries) |-> Tombstone]

MapValues(entries) ==
  {entries[i].uuid : i \in {j \in 1..Len(entries) : entries[j] # Tombstone}}

\* The next entry of an iterator that has passed idx entries; 0 at the end.
NextEntry(entries, idx) ==
  IF \E i \in (idx + 1)..Len(entries) : entries[i] # Tombstone
  THEN CHOOSE i \in (idx + 1)..Len(entries) :
         /\ entries[i] # Tombstone
         /\ \A j \in (idx + 1)..(i - 1) : entries[j] = Tombstone
  ELSE 0

NoClose == [id |-> 0, tracked |-> {}, attempted |-> {}, alone |-> TRUE,
            threw |-> FALSE, left |-> {}, failed |-> {}]

NoReturn == [op |-> "", failed |-> FALSE]

NoEvent == [action |-> "", encrypted |-> "", result |-> RawRecord("", "", <<>>, 0, 0)]

FeedIdle ==
  [entries |-> <<>>,   \* liveQueries
   subs |-> {},        \* the live queries the database holds: [uuid, device]
   uuids |-> 0,        \* the number of uuids the database has handed out
   calls |-> {},       \* setupLiveUpdates / stopLiveUpdates calls awaiting the database
   started |-> 0,      \* the number of calls started
   liveUpdatesActive |-> FALSE,  \* state.liveUpdatesActive
   error |-> NoError,            \* state.error
   trackedDevices |-> <<>>,      \* state.trackedDevices (their ids)
   returned |-> NoReturn,  \* the fetch of the composable that returned last, and
                           \* whether a call of the gateway it made failed
   closed |-> NoClose, \* the closeAllLiveQueries that returned or threw in the last step
   event |-> NoEvent,  \* the notification of the last step
   updates |-> 0,      \* the number of handleNewPoint calls it caused
   connected |-> FALSE,  \* state.connected
   pending |-> ""]     \* the call that connect() or the watcher of
                       \* credentialsStore.isLoaded awaits, "" when none

WithCall(f, c) == [f EXCEPT !.calls = {x \in @ : x.id # c.id} \cup {c}]

\* setupLiveUpdates line 211 or stopLiveUpdates line 242: the call returns.
Returned(f, c, active) ==
  [f EXCEPT !.calls = {x \in @ : x.id # c.id}, !.liveUpdatesActive = active]

\* The catch of setupLiveUpdates, lines 212-215, or of stopLiveUpdates,
\* lines 243-245.
Caught(f, c) ==
  [f EXCEPT !.calls = {x \in @ : x.id # c.id},
            !.error = ErrGateway,
            !.liveUpdatesActive = IF c.op = "setupLiveUpdates" THEN FALSE ELSE @]

\* liveSelectForDevice for the next device of the loop of lines 205-209, up
\* to its first await: db.kill of line 281 or db.live of line 291.
SelectNext(f, c) ==
  IF c.todo = <<>> THEN Returned(f, c, TRUE)
  ELSE IF MapHas(f.entries, Head(c.todo))
  THEN WithCall(f, [c EXCEPT !.pc = "select kill",
                             !.pending = MapGet(f.entries, Head(c.todo))])
  ELSE WithCall(f, [c EXCEPT !.pc = "live", !.pending = 0])

\* closeAllLiveQueries line 321, and its return to the caller.
Cleared(f, c) ==
  [f EXCEPT !.entries = MapClear(@),
            !.closed = [id |-> c.id, tracked |-> c.tracked, attempted |-> c.attempted,
                        alone |-> ~c.overlapped, threw |-> FALSE,
                        left |-> MapValues(MapClear(f.entries)),
                        failed |-> c.failed]]

\* A step begins: closed and event tell of the step before only.
Resumed(f) == [f EXCEPT !.closed = NoClose, !.event = NoEvent, !.updates = 0]

\* No iterator of liveQueries is in use: its emptied entries are dropped.
Compact(f) ==
  IF \E x \in f.calls : x.pc = "kill" THEN f
  ELSE [f EXCEPT !.entries = SelectSeq(@, LAMBDA e : e # Tombstone)]

AfterClose(f, c) ==
  IF c.op = "stopLiveUpdates" THEN Returned(f, c, FALSE)
  ELSE SelectNext(f, [c EXCEPT !.todo = f.trackedDevices, !.idx = 0, !.tracked = {},
                               !.attempted = {}, !.failed = {}])

\* closeAllLiveQueries, lines 313-321: the iterator of liveQueries.entries()
\* moves on, up to the await of db.kill or to the end of the loop.
CloseNext(f, c) ==
  IF NextEntry(f.entries, c.idx) = 0 THEN AfterClose(Cleared(f, c), c)
  ELSE WithCall(f, [c EXCEPT !.pc = "kill",
                             !.idx = NextEntry(f.entries, c.idx),
                             !.pending = f.entries[NextEntry(f.entries, c.idx)].uuid,
                             !.attempted =
                                @ \cup {f.entries[NextEntry(f.entries, c.idx)].uuid}])

\* db.kill(uuid) settles: the query is gone when the database killed it.
Killed(f, uuid, ok) ==
  [f EXCEPT !.subs = IF ok THEN {x \in @ : x.uuid # uuid} ELSE @]

\* Seeded fault: closeAllLiveQueries without the try of lines 314-319.
KillSettled_Rethrows(f, c, ok) ==
  IF ok THEN CloseNext(Killed(f, c.pending, ok), c)
  ELSE Caught([f EXCEPT !.closed = [id |-> c.id, tracked |-> c.tracked,
                                    attempted |-> c.attempted,
                                    alone |-> ~c.overlapped, threw |-> TRUE,
                                    left |-> MapValues(f.entries),
                                    failed |-> c.failed \cup {c.pending}]], c)

\* closeAllLiveQueries, lines 314-319: db.kill settles, a rejection is
\* logged, and the loop goes on.
KillSettled(f, c, ok) ==
  CloseNext(Killed(f, c.pending, ok),
            [c EXCEPT !.failed = IF ok THEN @ ELSE @ \cup {c.pending}])

\* liveSelectForDevice, lines 281-291: db.kill settles; the entry is deleted
\* and db.live is called, or the rejection is thrown to setupLiveUpdates.
SelectKillSettled(f, c, ok) ==
  IF ok
  THEN WithCall([Killed(f, c.pending, ok) EXCEPT !.entries = MapDelete(@, Head(c.todo))],
                [c EXCEPT !.pc = "live", !.pending = 0])
  ELSE Caught(f, c)

\* liveSelectForDevice, lines 291-303: db.live settles; the uuid is stored
\* and the loop of setupLiveUpdates goes on.
LiveSettled(f, c, ok) ==
  IF ok
  THEN SelectNext([f EXCEPT !.uuids = @ + 1,
                            !.subs = @ \cup {Entry(Head(c.todo), f.uuids + 1)},
                            !.entries = MapSet(@, Head(c.todo), f.uuids + 1)],
                  [c EXCEPT !.todo = Tail(@)])
  ELSE Caught(f, c)

\* setupLiveUpdates (lines 196-203, the devices being loaded) or
\* stopLiveUpdates (lines 239-241) is called: closeAllLiveQueries begins.
Called(f, op) ==
  CloseNext([f EXCEPT !.started = @ + 1,
                      !.calls = {[x EXCEPT !.overlapped = TRUE] : x \in @}],
            [id |-> f.started + 1, op |-> op, pc |-> "start", idx |-> 0, pending |-> 0,
             todo |-> <<>>, tracked |-> MapValues(f.entries), attempted |-> {},
             failed |-> {}, overlapped |-> f.calls # {}])

\* The callback given to db.live for a device, lines 293-299.
Accepts(deviceId, e) ==
  /\ e.action \in {"CREATE", "UPDATE"}
  /\ e.result.device = deviceId
  /\ e.encrypted # "null"

\* A notification: its action, the row, and the ciphertext field of the
\* row, which holds a value, holds null, or is not there (undefined).
LiveEvent(action, encrypted, r) ==
  [action |-> action, encrypted |-> encrypted,
   result |-> IF encrypted = "value" THEN r ELSE [r EXCEPT !.content = <<>>]]

\* The callbacks of n live queries call handleNewPoint for one row.
RECURSIVE HandleTimes(_, _, _, _)
HandleTimes(v, deviceId, newPoint, n) ==
  IF n = 0 THEN v
  ELSE HandleTimes(handleNewPoint(v, deviceId, newPoint), deviceId, newPoint, n - 1)

(***************************************************************************)
(* OwnTracksData.vue: mapData, the points handed to OwnTracksMap.  The     *)
(* object a Decrypted outcome parses to is stood for by the record, whose   *)
(* lat and lon are its coordinates.                                        *)
(***************************************************************************)
Reverse(seq) == [i \in 1..Len(seq) |-> seq[Len(seq) + 1 - i]]

NoData == "null"

\* mapData, lines 663-672: the point has a Decrypted outcome, and the lat and
\* the lon of its object are truthy.
Mappable(point, results) ==
  /\ point.id # ""
  /\ point.id \in DOMAIN results
  /\ results[point.id].success
  /\ point.lat # 0
  /\ point.lon # 0

\* Lines 673-676: an item of decryptedDevicePoints.
Wrapper(point) == [original |-> point, decrypted |-> point]

\* mapData, lines 658-681.
decryptedDevicePoints(devicePoints, results) ==
  [d \in DOMAIN devicePoints |->
     [i \in 1..Len(SelectSeq(devicePoints[d], LAMBDA p : Mappable(p, results))) |->
        Wrapper(SelectSeq(devicePoints[d], LAMBDA p : Mappable(p, results))[i])]]

\* getDecryptedPointData(item), lines 639-650: item.id is undefined for an
\* item of decryptedDevicePoints.
getDecryptedPointData(item, results) ==
  IF "id" \notin DOMAIN item THEN NoData
  ELSE IF item.id = "" \/ item.id \notin DOMAIN results THEN NoData
  ELSE IF ~results[item.id].success THEN NoData
  ELSE item

\* calculateDistance(point1, point2) <= MAX_DISTANCE, lines 596-607 and 628:
\* the distance is Infinity when a point or a coordinate is missing.
WithinMaxDistance(point1, point2) ==
  /\ point1 # NoData
  /\ point2 # NoData
  /\ point1.lat # 0 /\ point1.lon # 0 /\ point2.lat # 0 /\ point2.lon # 0
  /\ calculateDistance(point1.lat, point1.lon, point2.lat, point2.lon) <= MaxDistance

\* filterPointsByDistance(devicePoints) of the component, lines 620-632.
RECURSIVE ComponentFilterFrom(_, _, _, _)
ComponentFilterFrom(points, i, kept, results) ==
  IF i > Len(points) THEN kept
  ELSE ComponentFilterFrom(
         points, i + 1,
         IF WithinMaxDistance(getDecryptedPointData(kept[Len(kept)], results),
                              getDecryptedPointData(points[i], results))
         THEN Append(kept, points[i])
         ELSE kept,
         results)

\* Lines 610-636.
ComponentFilter(devicePoints, results) ==
  [d \in {x \in DOMAIN devicePoints : Len(devicePoints[x]) > 0} |->
     ComponentFilterFrom(devicePoints[d], 2, <<devicePoints[d][1]>>, results)]

\* Lines 690-694: the decrypted objects of the filtered points, device after
\* device.
Flattened(filtered) ==
  Flatten([i \in 1..Len(TrackedDevices) |->
             IF TrackedDevices[i] \in DOMAIN filtered
             THEN [j \in 1..Len(filtered[TrackedDevices[i]]) |->
                     filtered[TrackedDevices[i]][j].decrypted]
             ELSE <<>>])

\* mapData, lines 653-699.
mapData(v) ==
  Reverse(Flattened(ComponentFilter(
            decryptedDevicePoints(v.devicePoints, v.decryptionResults),
            v.decryptionResults)))

\* fetchTrackedDevices, lines 121-133, with the outcome of getTrackedDevices.
fetchTrackedDevices(f, ok) ==
  [f EXCEPT !.error = IF ok THEN NoError ELSE ErrGateway,
            !.trackedDevices = IF ok THEN TrackedDevices ELSE @]

\* fetchLastPointsForAllDevices, lines 137-142: the devices are fetched when
\* there are none, then state.error is reset.
FetchStarted(f, okDevices) ==
  [(IF f.trackedDevices = <<>> THEN fetchTrackedDevices(f, okDevices) ELSE f)
     EXCEPT !.error = NoError]

\* Lines 146-158 for the feed: the query of a device fails, or none does.
FetchEnded(f, failing, nestedFailed) ==
  [f EXCEPT !.error = IF failing \in 1..Len(f.trackedDevices) THEN ErrGateway ELSE @,
            !.returned = [op |-> "fetchLastPointsForAllDevices",
                          failed |-> nestedFailed \/ failing \in 1..Len(f.trackedDevices)]]

\* The loop of lines 146-153, each query answering up to the failing one (0
\* when none fails); the watcher of state.devicePoints runs at each await.
RECURSIVE FetchLoop(_, _, _, _, _)
FetchLoop(v, st, ready, failing, i) ==
  IF v.todo = <<>> THEN v
  ELSE IF i = failing THEN FetchCatch(v)
  ELSE FetchLoop(
         OnDevicePoints(
           FetchAssign(v, getLastPointsForDevice(v.db, Head(v.todo), WindowCap)),
           st, ready),
         st, ready, failing, i + 1)

\* fetchLastPointsForAllDevices from line 141 to its return, for the view.
FetchedAll(v, st, ready, devices, failing) ==
  IF devices = <<>>
  THEN [FetchBegin(v) EXCEPT !.todo = <<>>, !.fetching = FALSE, !.loading = FALSE,
                             !.filteredPoints = filterPointsByDistance(NoPoints),
                             !.last = [NoStep EXCEPT !.op = "fetched"]]
  ELSE FetchLoop(OnDevicePoints([FetchBegin(v) EXCEPT !.todo = devices], st, ready),
                 st, ready, failing, 1)

(***************************************************************************)
(* Specifications.                                                         *)
(***************************************************************************)
InitialStore(blob) ==
  [encryptedData |-> blob, credentials |-> BlankCredentials,
   isLoaded |-> FALSE, error |-> NoError]

\* useStorage('owntracks-credentials', ''): empty, or what an earlier session saved.
EarlierSessionBlob ==
  EncryptTable[JSON_stringify(QuotedCredentials),
               LongPassword \o <<CodePoint["b"]>>, CHOOSE n \in Nonces : TRUE].val

StoredBlobs == {<<>>, EarlierSessionBlob}

InitWith(blobs) ==
  /\ store \in {InitialStore(b) : b \in blobs}
  /\ sodiumReady \in BOOLEAN
  /\ connected = FALSE
  /\ call = NoCall
  /\ hist = NoHist
  /\ cipher = CipherIdle
  /\ crypto = CryptoIdle
  /\ view = ViewIdle
  /\ feed = FeedIdle

Init == InitWith(StoredBlobs)

Next ==
  \/ SaveCredentials
  \/ LoadCredentials
  \/ ClearCredentials
  \/ HasStoredCredentials
  \/ GatewayConnect
  \/ GatewayDisconnect
  \/ GatewayRequest
  \/ TryDecryptItem

Spec == Init /\ [][Next]_vars

\* The program in a browser where the cipher library loads.
InitReady == Init /\ sodiumReady

SpecReady == InitReady /\ [][Next]_vars

\* The same program started on a persisted slot whose content was damaged or
\* written by something else.
InitTampered == InitWith(StoredBlobs \cup CorruptBlobs)

SpecTampered == InitTampered /\ [][Next]_vars

\* One application of encryptData followed by decryptData.
CipherInit ==
  /\ store = InitialStore(<<>>)
  /\ sodiumReady \in BOOLEAN
  /\ connected = FALSE
  /\ call = NoCall
  /\ hist = NoHist
  /\ cipher \in {[CipherIdle EXCEPT !.phase = "input", !.data = d,
                                    !.password = p, !.nonce = n] :
                   d \in PlainTexts, p \in Passwords, n \in Nonces}
  /\ crypto = CryptoIdle
  /\ view = ViewIdle
  /\ feed = FeedIdle

CipherEncrypt ==
  /\ cipher.phase = "input"
  /\ \E r \in {encryptDataCached(cipher.data, cipher.password, cipher.nonce,
                                   sodiumReady)} :
       cipher' = [cipher EXCEPT !.phase = IF r.ok THEN "encrypted" ELSE "threw",
                                 !.token = r.val]
  /\ UNCHANGED <<store, sodiumReady, connected, call, hist, crypto, view, feed>>

CipherDecrypt ==
  /\ cipher.phase = "encrypted"
  /\ \E password2 \in Passwords :
       cipher' = [cipher EXCEPT !.phase = "decrypted",
                                !.password2 = password2,
                                !.out = decryptDataCached(cipher.token, password2,
                                                          sodiumReady)]
  /\ UNCHANGED <<store, sodiumReady, connected, call, hist, crypto, view, feed>>

CipherNext == CipherEncrypt \/ CipherDecrypt

SpecCipher == CipherInit /\ [][CipherNext]_vars

\* One application of decryptOwnTracksData.
DecryptInit ==
  /\ store = InitialStore(<<>>)
  /\ sodiumReady \in BOOLEAN
  /\ connected = FALSE
  /\ call = NoCall
  /\ hist = NoHist
  /\ cipher = CipherIdle
  /\ crypto \in {[CryptoIdle EXCEPT !.phase = "input", !.token = t, !.form = f,
                                    !.encryptedData = Envelope(f, t),
                                    !.secretKey = k] :
                   t \in RecordTokens, f \in Forms, k \in RecordPasswords}
  /\ view = ViewIdle
  /\ feed = FeedIdle

DecryptOwnTracksData ==
  /\ crypto.phase = "input"
  /\ \E r \in {decryptOwnTracksDataCached(crypto.encryptedData, crypto.secretKey,
                                           sodiumReady)} :
       crypto' = [crypto EXCEPT !.phase = IF r.threw THEN "threw" ELSE "returned",
                                 !.out = r]
  /\ UNCHANGED <<store, sodiumReady, connected, call, hist, cipher, view, feed>>

DecryptNext == DecryptOwnTracksData

SpecDecrypt == DecryptInit /\ [][DecryptNext]_vars

(***************************************************************************)
(* The component with its composable: records, outcome map and batch runs. *)
(***************************************************************************)
MaxRefreshes == 2
MaxPipelineArrivals == 1
MaxArrivals == 6
MaxFetches == 1

\* Rows as queryEncryptedOwnTracksData returns them: one that decrypts under
\* RecordPassword, a tampered one, one without content, one without id, one
\* whose plaintext is the JSON text null, one under OtherRecordPassword.
Row1 == RawRecord("r1", "d1", LocationToken, 11, 0)
Row2 == RawRecord("r2", "d1", TamperedToken, 12, 1)
Row3 == RawRecord("r3", "d1", <<>>, 13, 2)
Row4 == RawRecord("", "d1", LocationToken, 14, 3)
Row5 == RawRecord("r5", "d1", NullTextToken, 15, 4)
Row6 == RawRecord("r6", "d2", OtherLocationToken, 16, 0)
Row7 == RawRecord("r7", "d1", LocationToken, 17, 5000)

Rows == {Row1, Row2, Row3, Row4, Row5, Row6, Row7}

DataLists ==
  {<<>>, <<Row2, Row1>>, <<Row1, Row2, Row3, Row4, Row5, Row6, Row7>>}

\* The vault after saveCredentials(credentials, ShortPassword) on an empty slot.
UnlockedStore(credentials) ==
  saveCredentials(InitialStore(<<>>), credentials, ShortPassword, RecordNonce, TRUE).store

\* The k-th live arrival, for device d: late (its timestamp is older than
\* every stored row) when k is odd, else newer than every row.  The reports
\* of the second device carry a ciphertext that does not authenticate.
ArrivalRecord(k, d) ==
  RawRecord("a" \o ToString(k), d,
            IF d = Head(TrackedDevices) THEN LocationToken ELSE TamperedToken,
            IF k % 2 = 1 THEN k ELSE 100 + k,
            IF k % 3 = 0 THEN 5000 ELSE (k % 3) - 1)

\* saveCredentials from the credentials form; the watcher of isLoaded
\* connects when the view is not connected, and the connection may fail.
PipelineSave ==
  \E credentials \in {PlainCredentials}, dbOk \in BOOLEAN :
    \E r \in {saveCredentials(store, credentials, ShortPassword, RecordNonce, sodiumReady)} :
       /\ store' = r.store
       /\ call' = VaultCall("saveCredentials", ShortPassword, r.ret, FALSE)
       /\ hist' = [state |-> "saved", credentials |-> credentials, pw |-> ShortPassword]
       /\ connected' = IF r.store.isLoaded /\ ~connected
                       THEN connect(r.store, connected, dbOk).connected
                       ELSE connected
       /\ UNCHANGED <<sodiumReady, cipher, crypto, view, feed>>

\* fetchEncryptedData resumes with the rows of the query (none when it
\* threw), assigns state.data, and the watcher of state.data runs.
FetchData(lists) ==
  /\ connected
  /\ view.epoch < MaxRefreshes
  /\ \E data \in lists :
       \E v \in {OnData([view EXCEPT !.data = data,
                                     !.last = [NoStep EXCEPT !.op = "fetchEncryptedData"]],
                        store, sodiumReady)} :
          view' = v
  /\ UNCHANGED <<store, sodiumReady, connected, call, hist, cipher, crypto, feed>>

FetchEncryptedData == FetchData(DataLists)

\* The timer of a batch run fires.
ProcessNextBatch ==
  /\ \E run \in view.runs :
       \E v \in {processNextBatch(view, store, run, sodiumReady)} :
          view' = v
  /\ UNCHANGED <<store, sodiumReady, connected, call, hist, cipher, crypto, feed>>

\* A CREATE or UPDATE notification of a live query arrives: the row is in
\* the table, handleNewPoint runs, then the watcher of state.devicePoints.
HandleLive(limit, devices) ==
  /\ connected
  /\ view.arrivals < limit
  /\ \E d \in devices :
       \E r \in {ArrivalRecord(view.arrivals + 1, d)} :
          \E v \in {handleNewPoint(
                      [view EXCEPT
                         !.db = @ \cup {r},
                         !.arrivals = @ + 1,
                         !.arrived = SetPoints(@, d, Append(PointsOf(@, d), r)),
                         !.live = IF view.fetching THEN @ \cup {r} ELSE @,
                         !.last = [NoStep EXCEPT !.op = "handleNewPoint", !.record = r]],
                      d, r)} :
             view' = OnDevicePoints(v, store, sodiumReady)
  /\ UNCHANGED <<store, sodiumReady, connected, call, hist, cipher, crypto, feed>>

PipelineArrival ==
  /\ view.epoch < MaxRefreshes
  /\ HandleLive(MaxPipelineArrivals, Devices)

\* The live arrivals of the first tracked device.
LiveArrival == HandleLive(MaxArrivals, {Head(TrackedDevices)})

PipelineInit ==
  /\ store = InitialStore(<<>>)
  /\ sodiumReady = TRUE
  /\ connected = FALSE
  /\ call = NoCall
  /\ hist = NoHist
  /\ cipher = CipherIdle
  /\ crypto = CryptoIdle
  /\ view = ViewIdle
  /\ feed = FeedIdle

PipelineNext ==
  \/ PipelineSave
  \/ ClearCredentials
  \/ FetchEncryptedData
  \/ ProcessNextBatch
  \/ PipelineArrival

SpecPipeline == PipelineInit /\ [][PipelineNext]_vars

\* One batch run: the vault is unlocked, state.data is assigned once, and no
\* other refresh follows.  A timer that is set fires.
BatchLists ==
  DataLists \cup {<<a, Row2>> : a \in Rows}
    \cup {<<Row7, a, Row2, Row3, Row4, Row5, b>> : a, b \in {Row1, Row2, Row6}}

BatchInit ==
  /\ store \in {UnlockedStore(PlainCredentials), UnlockedStore(QuotedCredentials)}
  /\ sodiumReady = TRUE
  /\ connected = TRUE
  /\ call = NoCall
  /\ hist = NoHist
  /\ cipher = CipherIdle
  /\ crypto = CryptoIdle
  /\ view = ViewIdle
  /\ feed = FeedIdle

BatchFetch ==
  /\ view.last.op = "none"
  /\ FetchData(BatchLists)

BatchNext ==
  \/ BatchFetch
  \/ ProcessNextBatch
  \/ ClearCredentials

SpecBatchRun == BatchInit /\ [][BatchNext]_vars /\ WF_vars(ProcessNextBatch)

\* The device windows: fetchLastPointsForAllDevices and live arrivals.
StoredRows ==
  {RawRecord("s" \o ToString(k), "d1", LocationToken, 10 + k, k) : k \in 1..5}
    \cup {Located(RawRecord("t" \o ToString(k), "d2", LocationToken, 10 + k, 7000),
                  1000 + k) : k \in 1..2}

\* fetchLastPointsForAllDevices is called.
FetchLastPointsBegin ==
  /\ connected
  /\ ~view.fetching
  /\ view.fetches < MaxFetches
  /\ view' = OnDevicePoints(FetchBegin(view), store, sodiumReady)
  /\ UNCHANGED <<store, sodiumReady, connected, call, hist, cipher, crypto, feed>>

\* getLastPointsForDevice returns for the next device of the loop, or throws.
FetchLastPointsResume ==
  /\ view.fetching
  /\ \E dbOk \in BOOLEAN :
       \E v \in {IF dbOk
                 THEN OnDevicePoints(
                        FetchAssign(view, getLastPointsForDevice(view.db, Head(view.todo),
                                                                 WindowCap)),
                        store, sodiumReady)
                 ELSE FetchCatch(view)} :
          view' = v
  /\ UNCHANGED <<store, sodiumReady, connected, call, hist, cipher, crypto, feed>>

WindowInit ==
  /\ store = UnlockedStore(PlainCredentials)
  /\ sodiumReady = TRUE
  /\ connected = TRUE
  /\ call = NoCall
  /\ hist = NoHist
  /\ cipher = CipherIdle
  /\ crypto = CryptoIdle
  /\ view = [ViewIdle EXCEPT !.db = StoredRows]
  /\ feed = FeedIdle

WindowNext ==
  \/ FetchLastPointsBegin
  \/ FetchLastPointsResume
  \/ LiveArrival

SpecWindow == WindowInit /\ [][WindowNext]_vars

\* An UPDATE notification of the live query of the first tracked device
\* (the service passes CREATE and UPDATE alike to the callback): the result
\* is a row the table already holds, and handleNewPoint runs on it.
MaxUpdates == 3

UpdateArrival ==
  /\ connected
  /\ view.arrivals < MaxUpdates
  /\ \E r \in {x \in view.db : x.device = Head(TrackedDevices) /\ x.content # <<>>} :
       \E v \in {handleNewPoint(
                   [view EXCEPT
                      !.arrivals = @ + 1,
                      !.arrived = SetPoints(@, r.device, Append(PointsOf(@, r.device), r)),
                      !.live = IF view.fetching THEN @ \cup {r} ELSE @,
                      !.last = [NoStep EXCEPT !.op = "handleNewPoint", !.record = r]],
                   r.device, r)} :
          view' = OnDevicePoints(v, store, sodiumReady)
  /\ UNCHANGED <<store, sodiumReady, connected, call, hist, cipher, crypto, feed>>

UpdatesNext ==
  \/ FetchLastPointsBegin
  \/ FetchLastPointsResume
  \/ UpdateArrival

SpecUpdates == WindowInit /\ [][UpdatesNext]_vars

\* The exported filterPointsByDistance is called between the steps above.
FilterPointsByDistance ==
  /\ view' = Recomputed(view)
  /\ UNCHANGED <<store, sodiumReady, connected, call, hist, cipher, crypto, feed>>

RecomputeNext ==
  \/ FetchLastPointsBegin
  \/ FetchLastPointsResume
  \/ LiveArrival
  \/ FilterPointsByDistance

SpecRecompute == WindowInit /\ [][RecomputeNext]_vars

\* The notifications for the k-th change of the table.
LiveEvents(k) ==
  {LiveEvent(a, "value", ArrivalRecord(k, "d1")) : a \in {"CREATE", "UPDATE", "DELETE"}}
    \cup {LiveEvent("CREATE", x, ArrivalRecord(k, "d1")) : x \in {"null", "undefined"}}
    \cup {LiveEvent("CREATE", "value", ArrivalRecord(k, "d2"))}

\* The live queries: calls of setupLiveUpdates and stopLiveUpdates, which
\* may overlap, the answers of the database, and its notifications.
SetupLiveUpdates ==
  /\ connected
  /\ feed.started < MaxCalls
  /\ feed' = Compact(Called(Resumed(feed), "setupLiveUpdates"))
  /\ UNCHANGED <<store, sodiumReady, connected, call, hist, cipher, crypto, view>>

StopLiveUpdates ==
  /\ connected
  /\ feed.started < MaxCalls
  /\ feed' = Compact(Called(Resumed(feed), "stopLiveUpdates"))
  /\ UNCHANGED <<store, sodiumReady, connected, call, hist, cipher, crypto, view>>

\* db.kill of closeAllLiveQueries resolves or rejects.
KillResponse ==
  /\ \E c \in {x \in feed.calls : x.pc = "kill"}, ok \in BOOLEAN :
       feed' = Compact(KillSettled(Resumed(feed), c, ok))
  /\ UNCHANGED <<store, sodiumReady, connected, call, hist, cipher, crypto, view>>

\* db.kill of liveSelectForDevice resolves or rejects.
SelectKillResponse ==
  /\ \E c \in {x \in feed.calls : x.pc = "select kill"}, ok \in BOOLEAN :
       feed' = Compact(SelectKillSettled(Resumed(feed), c, ok))
  /\ UNCHANGED <<store, sodiumReady, connected, call, hist, cipher, crypto, view>>

\* db.live resolves or rejects.
LiveResponse ==
  /\ \E c \in {x \in feed.calls : x.pc = "live"}, ok \in BOOLEAN :
       feed' = Compact(LiveSettled(Resumed(feed), c, ok))
  /\ UNCHANGED <<store, sodiumReady, connected, call, hist, cipher, crypto, view>>

\* The database notifies every live query of a change of the table; the
\* callbacks run, then the watcher of state.devicePoints.
Notify ==
  /\ view.arrivals < MaxLiveEvents
  /\ \E e \in LiveEvents(view.arrivals + 1) :
       \E n \in {Cardinality({x \in feed.subs : Accepts(x.device, e)})} :
          /\ feed' = [Resumed(feed) EXCEPT !.event = e, !.updates = n]
          /\ \E v \in {HandleTimes(
                         [view EXCEPT !.arrivals = @ + 1,
                                      !.last = [NoStep EXCEPT !.op = "notification",
                                                              !.record = e.result]],
                         e.result.device, e.result, n)} :
               view' = IF n = 0 THEN v ELSE OnDevicePoints(v, store, sodiumReady)
  /\ UNCHANGED <<store, sodiumReady, connected, call, hist, cipher, crypto>>

LiveNext ==
  \/ SetupLiveUpdates
  \/ StopLiveUpdates
  \/ KillResponse
  \/ SelectKillResponse
  \/ LiveResponse
  \/ Notify

\* The devices have been fetched.
FeedLoaded == fetchTrackedDevices(FeedIdle, TRUE)

\* The live queries after a setupLiveUpdates that met no failure.
FeedActive ==
  CHOOSE f3 \in
    {LiveSettled(f2, CHOOSE c \in f2.calls : TRUE, TRUE) :
       f2 \in {LiveSettled(f1, CHOOSE c \in f1.calls : TRUE, TRUE) :
                 f1 \in {Called(FeedLoaded, "setupLiveUpdates")}}} : TRUE

\* The view is connected and has its devices; live updates are off, or on.
LiveInit ==
  /\ store = UnlockedStore(PlainCredentials)
  /\ sodiumReady = TRUE
  /\ connected = TRUE
  /\ call = NoCall
  /\ hist = NoHist
  /\ cipher = CipherIdle
  /\ crypto = CryptoIdle
  /\ view = [ViewIdle EXCEPT !.db = StoredRows]
  /\ feed \in {FeedLoaded, [FeedActive EXCEPT !.started = 0]}

SpecLive == LiveInit /\ [][LiveNext]_vars

\* The fetches of the devices and of their windows, one call at a time,
\* each call of the gateway answering or failing.
FetchTrackedDevices ==
  /\ connected
  /\ \E ok \in BOOLEAN :
       /\ feed' = [fetchTrackedDevices(feed, ok) EXCEPT
                     !.returned = [op |-> "fetchTrackedDevices", failed |-> ~ok]]
       /\ view' = [view EXCEPT !.loading = FALSE,
                               !.last = [NoStep EXCEPT !.op = "fetchTrackedDevices"]]
  /\ UNCHANGED <<store, sodiumReady, connected, call, hist, cipher, crypto>>

FetchLastPointsForAllDevices ==
  /\ connected
  /\ view.fetches < MaxFetches
  /\ \E okDevices \in BOOLEAN, failing \in 0..Len(TrackedDevices) :
       \E f \in {FetchStarted(feed, okDevices)} :
          /\ feed' = FetchEnded(f, failing, feed.trackedDevices = <<>> /\ ~okDevices)
          /\ \E v \in {FetchedAll(view, store, sodiumReady, f.trackedDevices, failing)} :
               view' = v
  /\ UNCHANGED <<store, sodiumReady, connected, call, hist, cipher, crypto>>

ErrorsInit ==
  /\ store = UnlockedStore(PlainCredentials)
  /\ sodiumReady = TRUE
  /\ connected = TRUE
  /\ call = NoCall
  /\ hist = NoHist
  /\ cipher = CipherIdle
  /\ crypto = CryptoIdle
  /\ view = [ViewIdle EXCEPT !.db = StoredRows]
  /\ feed = FeedIdle

ErrorsNext ==
  \/ FetchTrackedDevices
  \/ FetchLastPointsForAllDevices
  \/ LiveArrival

SpecErrors == ErrorsInit /\ [][ErrorsNext]_vars

(***************************************************************************)
(* The connection as the composable sees it: state.connected beside the    *)
(* connected flag of SurrealDBService.  The table is empty, so state.data  *)
(* and state.trackedDevices stay empty, no decryption starts, and each of  *)
(* fetchTrackedDevices, fetchLastPointsForAllDevices and setupLiveUpdates  *)
(* makes one call of the gateway, getTrackedDevices.                       *)
(***************************************************************************)
\* connect(), lines 28-32: up to the await of surrealService.connect().
ConnectCalled(f) == [f EXCEPT !.error = NoError, !.pending = "connect"]

\* connect(), lines 33-36 when surrealService.connect() returned (r.ret is
\* "ok"): fetchEncryptedData is called; lines 37-41 when it threw: connect()
\* returns and the watcher goes on with fetchTrackedDevices.
ConnectSettled(f, r) ==
  IF r.ret = "ok"
  THEN [f EXCEPT !.connected = TRUE, !.pending = "fetchEncryptedData"]
  ELSE [f EXCEPT !.error = ErrGateway, !.connected = FALSE,
                 !.pending = "fetchTrackedDevices"]

\* The watcher of credentialsStore.isLoaded, OwnTracksData.vue lines
\* 550-561: what it awaits after the call that has returned.
StageAfter(pending) ==
  IF pending = "fetchEncryptedData" THEN "fetchTrackedDevices"
  ELSE IF pending = "fetchTrackedDevices" THEN "fetchLastPointsForAllDevices"
  ELSE IF pending = "fetchLastPointsForAllDevices" THEN "setupLiveUpdates"
  ELSE ""

\* The call of the gateway that fetchEncryptedData (lines 59-65),
\* fetchTrackedDevices (lines 125-130), fetchLastPointsForAllDevices (lines
\* 137-158) or setupLiveUpdates (lines 197-215) awaits has returned or
\* thrown: none of them assigns state.connected.
StageSettled(f, r) ==
  [f EXCEPT !.error = IF f.pending = "fetchLastPointsForAllDevices" THEN NoError
                      ELSE IF r.ret = "ok" THEN NoError ELSE ErrGateway,
            !.liveUpdatesActive = IF f.pending = "setupLiveUpdates" THEN TRUE ELSE @,
            !.pending = StageAfter(@)]

\* disconnect(), lines 45-53.
Disconnected(f, r) ==
  IF r.ret = "ok"
  THEN [f EXCEPT !.connected = FALSE]
  ELSE [f EXCEPT !.error = ErrGateway]

\* saveCredentials from the credentials form; the watcher of isLoaded calls
\* connect() when isLoaded has become true and state.connected is false.
SessionSave ==
  /\ feed.pending = ""
  /\ \E r \in {saveCredentials(store, PlainCredentials, ShortPassword, RecordNonce,
                               sodiumReady)} :
       /\ store' = r.store
       /\ call' = VaultCall("saveCredentials", ShortPassword, r.ret, FALSE)
       /\ feed' = IF ~store.isLoaded /\ r.store.isLoaded /\ ~feed.connected
                  THEN ConnectCalled(feed)
                  ELSE feed
  /\ UNCHANGED <<sodiumReady, connected, hist, cipher, crypto, view>>

\* clearCredentials from the credentials form.
SessionClear ==
  /\ store.isLoaded
  /\ store' = clearCredentials(store)
  /\ call' = VaultCall("clearCredentials", <<>>, "void", FALSE)
  /\ UNCHANGED <<sodiumReady, connected, hist, cipher, crypto, view, feed>>

\* surrealService.connect(), awaited by connect(), returns or throws.
SessionConnectResponse ==
  /\ feed.pending = "connect"
  /\ \E dbOk \in BOOLEAN :
       \E r \in {connect(store, connected, dbOk)} :
          /\ connected' = r.connected
          /\ call' = GatewayCall("connect", r.ret, r.readCredentials, r.reachedDb)
          /\ feed' = ConnectSettled(feed, r)
  /\ UNCHANGED <<store, sodiumReady, hist, cipher, crypto, view>>

\* The query of fetchEncryptedData or the getTrackedDevices of a later call
\* of the watcher returns or throws; the gateway connects first when it is
\* not connected.
SessionRequestResponse ==
  /\ feed.pending \notin {"", "connect"}
  /\ \E connectOk \in BOOLEAN, dbOk \in BOOLEAN :
       \E r \in {request(store, connected, connectOk, dbOk)} :
          /\ connected' = r.connected
          /\ call' = GatewayCall(IF feed.pending = "fetchEncryptedData"
                                 THEN "queryEncryptedOwnTracksData"
                                 ELSE "getTrackedDevices",
                                 r.ret, r.readCredentials, r.reachedDb)
          /\ feed' = StageSettled(feed, r)
  /\ UNCHANGED <<store, sodiumReady, hist, cipher, crypto, view>>

\* disconnect() is called and surrealService.disconnect() returns or throws.
SessionDisconnect ==
  /\ feed.pending = ""
  /\ \E dbOk \in BOOLEAN :
       \E r \in {disconnect(connected, dbOk)} :
          /\ connected' = r.connected
          /\ call' = GatewayCall("disconnect", r.ret, FALSE, r.reachedDb)
          /\ feed' = Disconnected(feed, r)
  /\ UNCHANGED <<store, sodiumReady, hist, cipher, crypto, view>>

SessionInit ==
  /\ store = InitialStore(<<>>)
  /\ sodiumReady = TRUE
  /\ connected = FALSE
  /\ call = NoCall
  /\ hist = NoHist
  /\ cipher = CipherIdle
  /\ crypto = CryptoIdle
  /\ view = ViewIdle
  /\ feed = FeedIdle

SessionNext ==
  \/ SessionSave
  \/ SessionClear
  \/ SessionConnectResponse
  \/ SessionRequestResponse
  \/ SessionDisconnect

SpecSession == SessionInit /\ [][SessionNext]_vars

(***************************************************************************)
(* Properties of the vault.                                                *)
(*                                                                         *)
(* hist names the last write to the persisted slot, call the operation     *)
(* that produced the current state.  Every action sets call, so in a step  *)
(* that changes the state call'.op names the operation of that step.       *)
(***************************************************************************)
\* The key the specification derives from a password: the first
\* min(len, KEYBYTES) bytes of its UTF-8 encoding, the rest zero.
DerivedKey(password) ==
  LET bytes == from_string(password)
  IN [i \in 1..KEYBYTES |-> IF i <= Len(bytes) THEN bytes[i] ELSE 0]

WellFormedText(t) == \A i \in 1..Len(t) : ~IsSurrogate(t[i])

GatewayOps == GatewayRequests \cup {"connect"}

\* C1: after saveCredentials(C, M) succeeded and no later save or clear
\* wrote the slot, loadCredentials(M) returns true and leaves the in-memory
\* credentials equal to C, isLoaded = true and error = null.
C1_SaveThenLoad ==
  (hist.state = "saved" /\ call.op = "loadCredentials" /\ call.pw = hist.pw)
    => /\ call.ret = "true"
       /\ store.credentials = hist.credentials
       /\ store.isLoaded
       /\ store.error = NoError

\* C1 witness: a load with the saving password returned the credentials that
\* need escaping, saved under a password longer than the key.
C1_Witness ==
  /\ hist.state = "saved"
  /\ hist.credentials = QuotedCredentials
  /\ Len(hist.pw) > KEYBYTES
  /\ call.op = "loadCredentials"
  /\ call.pw = hist.pw
  /\ call.ret = "true"
  /\ store.credentials = QuotedCredentials

\* C2 as stated: after saveCredentials(C, M), loadCredentials(M2) with any
\* master password M2 different from M returns false.
C2_AnyOtherPasswordFails ==
  (hist.state = "saved" /\ call.op = "loadCredentials" /\ call.pw # hist.pw)
    => call.ret = "false"

\* C2 amended: after saveCredentials(C, M), loadCredentials(M2) with a master
\* password M2 whose derived key differs from the key derived from M returns
\* false, assigns no credentials and leaves the vault Locked.
C2_OtherKeyFails ==
  [][(/\ hist.state = "saved"
      /\ call'.op = "loadCredentials"
      /\ DerivedKey(call'.pw) # DerivedKey(hist.pw))
       => /\ call'.ret = "false"
          /\ store'.credentials = store.credentials
          /\ ~store'.isLoaded]_vars

\* C2 witness: a load with a password of another key failed after a save.
C2_Witness ==
  /\ hist.state = "saved"
  /\ call.op = "loadCredentials"
  /\ DerivedKey(call.pw) # DerivedKey(hist.pw)
  /\ call.ret = "false"
  /\ store.error = ErrIncorrect

\* C3: when the persisted slot is not empty and loadCredentials does not
\* succeed, whatever the reason (tag that does not verify, token that is no
\* base64 or too short, text that is no JSON, cipher library not ready), it
\* returns false, error is the one incorrect-password message and isLoaded is
\* false.
C3_SingleLoadError ==
  (call.op = "loadCredentials" /\ store.encryptedData # <<>> /\ call.ret # "true")
    => /\ call.ret = "false"
       /\ store.error = ErrIncorrect
       /\ ~store.isLoaded

\* C3 witness: the slot holds a box that opens under the password to text
\* that is no JSON, and the load failed.
C3_Witness ==
  /\ store.encryptedData = NotJsonBlob
  /\ sodiumReady
  /\ call.op = "loadCredentials"
  /\ call.pw = ShortPassword
  /\ call.ret = "false"
  /\ store.error = ErrIncorrect

\* C4 as stated: a loadCredentials call that fails leaves the in-memory
\* credentials and the loaded flag as they were before the call.
C4_FailedLoadChangesNothing ==
  [][(call'.op = "loadCredentials" /\ call'.ret = "false")
       => /\ store'.credentials = store.credentials
          /\ store'.isLoaded = store.isLoaded]_vars

\* C4 amended: a loadCredentials call that fails leaves the in-memory
\* credentials and the persisted slot as they were; the loaded flag keeps its
\* value when the slot is empty and is false afterwards when it is not.
C4_FailedLoadKeepsCredentials ==
  [][(call'.op = "loadCredentials" /\ call'.ret = "false")
       => /\ store'.credentials = store.credentials
          /\ store'.encryptedData = store.encryptedData
          /\ store'.isLoaded = (IF store.encryptedData = <<>> THEN store.isLoaded
                                ELSE FALSE)]_vars

\* C4 witness: a load failed on a vault that held credentials in memory, and
\* they are still there.
C4_Witness ==
  /\ call.op = "loadCredentials"
  /\ call.ret = "false"
  /\ store.encryptedData # <<>>
  /\ store.credentials = PlainCredentials
  /\ ~store.isLoaded

\* C5 as stated: in every reachable state, a Locked vault (isLoaded = false)
\* has every credential field empty, and an Unlocked vault holds one complete
\* credential set.
C5_AllOrNothing ==
  /\ ~store.isLoaded => store.credentials = BlankCredentials
  /\ store.isLoaded => DOMAIN store.credentials = KeySet

\* C6 as stated: a gateway operation or tryDecryptItem that read a credential
\* field, or went on to the database or the cipher, ran on an Unlocked vault.
C6_LockedVaultBlocks ==
  (/\ call.op \in GatewayOps \cup {"tryDecryptItem"}
   /\ (call.readCredentials \/ call.reachedDb \/ call.reachedCipher))
    => store.isLoaded

\* C7: after clearCredentials(), whatever the state before, every credential
\* field is empty, the persisted slot is empty, isLoaded = false and
\* error = null; a second clearCredentials() changes nothing.
C7_ClearBlanksAll ==
  call.op = "clearCredentials"
    => /\ store.credentials = BlankCredentials
       /\ \A k \in KeySet : store.credentials[k] = <<>>
       /\ store.encryptedData = <<>>
       /\ ~store.isLoaded
       /\ store.error = NoError
       /\ clearCredentials(store) = store

\* C7 witness: clearCredentials() ran on a vault that had been unlocked and
\* connected.
C7_Witness ==
  /\ call.op = "clearCredentials"
  /\ connected
  /\ store = InitialStore(<<>>)

\* C8: once clearCredentials() was the last write to the persisted slot,
\* hasStoredCredentials() returns false, and loadCredentials with any master
\* password returns false with the no-stored-credentials error, which is not
\* the incorrect-password error, calls no decryption and changes neither the
\* credentials nor isLoaded nor the slot.
C8_LoadAfterClear ==
  [][hist.state = "cleared"
       => /\ call'.op = "hasStoredCredentials" => call'.ret = "false"
          /\ call'.op = "loadCredentials"
               => /\ call'.ret = "false"
                  /\ store'.error = ErrNoStored
                  /\ ErrNoStored # ErrIncorrect
                  /\ ~call'.decryptCalled
                  /\ store'.credentials = store.credentials
                  /\ store'.isLoaded = store.isLoaded
                  /\ store'.encryptedData = store.encryptedData]_vars

\* C8 witness: a load after a clear reported that nothing is stored.
C8_Witness ==
  /\ hist.state = "cleared"
  /\ call.op = "loadCredentials"
  /\ call.pw \in Passwords
  /\ store.error = ErrNoStored
  /\ ~call.decryptCalled

\* C9: in every reachable state the persisted slot is empty or holds a token
\* that encryptData made from a serialized credential set under a master
\* password; it never holds the serialized credentials themselves.
C9_SlotHoldsTokenOrNothing ==
  /\ store.encryptedData = <<>> \/ store.encryptedData \in CredentialTokens
  /\ \A c \in CredentialSets : store.encryptedData # JSON_stringify(c)

\* C9 witness: a successful save wrote the slot.
C9_Witness ==
  /\ call.op = "saveCredentials"
  /\ call.ret = "true"
  /\ hist.credentials = PlainCredentials
  /\ store.encryptedData \in CredentialTokens

IsFailure(out) == ~out.threw /\ ~out.success /\ out.error # ""

\* The token of the current application, decoded and opened by the library.
TokenBytes == from_base64(crypto.token)

TokenOpened ==
  crypto_secretbox_open_easy(
    Slice(TokenBytes.val, NONCEBYTES + 1, Len(TokenBytes.val)),
    Slice(TokenBytes.val, 1, NONCEBYTES),
    DerivedKey(crypto.secretKey))

TokenLongEnough == TokenBytes.ok /\ Len(TokenBytes.val) >= NONCEBYTES

RawResult == decryptOwnTracksDataCached(crypto.token, crypto.secretKey, TRUE)

ReadsAsJsonStructure(t) ==
  JSON_parseValue(t).ok /\ JSON_parseValue(t).val.kind \in {"null", "object"}

IsOutcome(o) ==
  \/ (o.success /\ "data" \in DOMAIN o /\ "error" \notin DOMAIN o)
  \/ (~o.success /\ "error" \in DOMAIN o /\ o.error # "" /\ "data" \notin DOMAIN o)

HasOutcome(id) ==
  id \in DOMAIN view.decryptionResults /\ IsOutcome(view.decryptionResults[id])

HasIdAndContent(item) == item.id # "" /\ item.content # <<>>

\* C13 as stated: after the records of a pass went through tryDecryptItem,
\* every one with an id and a ciphertext has exactly one outcome, Decrypted or
\* Failed, written by that pass, and one without ciphertext had none written.
C13_EveryRecordOneOutcome ==
  \A i \in DOMAIN view.last.items :
    /\ HasIdAndContent(view.last.items[i]) =>
         (HasOutcome(view.last.items[i].id) /\ view.last.items[i].id \in view.last.wrote)
    /\ view.last.items[i].content = <<>> => view.last.items[i].id \notin view.last.wrote

\* C13: every record with an id and a ciphertext that a pass hands to
\* tryDecryptItem while the vault is unlocked with a non-empty decryption
\* password has exactly one outcome, Decrypted or Failed, written by that
\* pass; a record without ciphertext, and any record handled while the vault
\* is locked or has no decryption password, has none written.
C13_UnlockedRecordOneOutcome ==
  /\ \A i \in DOMAIN view.last.items :
       /\ (HasIdAndContent(view.last.items[i]) /\ view.last.unlocked) =>
            (HasOutcome(view.last.items[i].id)
               /\ view.last.items[i].id \in view.last.wrote)
       /\ view.last.items[i].content = <<>> => view.last.items[i].id \notin view.last.wrote
  /\ ~view.last.unlocked => view.last.wrote = {}
  /\ \A id \in DOMAIN view.decryptionResults : IsOutcome(view.decryptionResults[id])

\* A batch went through a record that decrypts, a tampered one and one
\* without content: Decrypted, Failed and no entry.
C13_Witness ==
  /\ view.last.op = "processNextBatch"
  /\ view.last.unlocked
  /\ \E i, j, k \in DOMAIN view.last.items :
       /\ view.last.items[i] = Row1
       /\ view.last.items[j] = Row2
       /\ view.last.items[k] = Row3
  /\ HasOutcome("r1") /\ view.decryptionResults["r1"].success
  /\ HasOutcome("r2") /\ ~view.decryptionResults["r2"].success
  /\ "r3" \notin DOMAIN view.decryptionResults

\* C14: once a bulk refresh has started, every outcome in the map was written
\* by the refresh started last.
C14_OnlyCurrentRefresh ==
  \A id \in DOMAIN view.decryptionResults : view.writer[id] = view.epoch

\* C15: a step that handles a live arrival leaves the outcome of every id
\* other than the arriving record's as it was: present with the same value, or
\* absent.
C15_LiveArrivalTouchesOneId ==
  [][view'.arrivals = view.arrivals + 1 =>
       \A id \in ((DOMAIN view.decryptionResults) \cup (DOMAIN view'.decryptionResults))
                   \ {view'.last.record.id} :
          /\ id \in DOMAIN view.decryptionResults
          /\ id \in DOMAIN view'.decryptionResults
          /\ view'.decryptionResults[id] = view.decryptionResults[id]]_vars

\* C16: the timer of a batch run that is not the newest refresh processes no
\* batch and writes no outcome.
C16_StaleRunStops ==
  (view.last.op = "processNextBatch" /\ view.last.epoch < view.epoch) =>
    (view.last.wrote = {} /\ ~view.last.advanced)

\* The records whose decryption fails under the decryption password of the
\* vault.
FailsToDecrypt(item) ==
  /\ HasIdAndContent(item)
  /\ ~OutcomeOf(decryptOwnTracksDataCached(
                  item.content, Field(store.credentials, K_decryptionPassword),
                  TRUE)).success

RunStarted == view.epoch > 0

\* The run has ended with isDecrypting = false, every record of state.data
\* with an id and a ciphertext has an outcome, and the failing ones are Failed.
RunComplete ==
  /\ view.runs = {}
  /\ ~view.isDecrypting
  /\ \A i \in DOMAIN view.data :
       /\ HasIdAndContent(view.data[i]) => HasOutcome(view.data[i].id)
       /\ (Unlocked(store) /\ FailsToDecrypt(view.data[i])) =>
            ~view.decryptionResults[view.data[i].id].success

\* C17 as stated: a batch run that no refresh follows ends with
\* isDecrypting = false and an outcome for every record with id and ciphertext.
C17_RunRecordsAll == RunStarted ~> RunComplete

\* C17: the same for a run during which the vault stays unlocked with a
\* non-empty decryption password.
C17_UnlockedRunRecordsAll == ([]Unlocked(store)) => (RunStarted ~> RunComplete)

\* A run over seven records, two batches, has ended; the tampered record in
\* its first batch is Failed and the records after it have their outcomes.
C17_Witness ==
  /\ RunComplete
  /\ Unlocked(store)
  /\ Len(view.data) = 7
  /\ view.data[3] = Row2
  /\ ~view.decryptionResults["r2"].success
  /\ HasOutcome(view.data[7].id)

(***************************************************************************)
(* Properties of the device windows (useOwnTracks).                        *)
(***************************************************************************)
Take(seq, n) == Slice(seq, 1, Min(n, Len(seq)))

\* C18: a window holds at most 5 records: the live arrivals since the window
\* was last set, newest arrival first, then the rows it was set to, cut to 5;
\* after 6 live arrivals it holds the last 5 of them in reverse order of
\* arrival.
C18_WindowNewestFirst ==
  \A d \in DOMAIN view.devicePoints :
    /\ Len(view.devicePoints[d]) <= 5
    /\ view.devicePoints[d]
         = Take(Reverse(PointsOf(view.arrived, d)) \o PointsOf(view.base, d), 5)
    /\ Len(PointsOf(view.arrived, d)) >= 6 =>
         view.devicePoints[d]
           = [i \in 1..5 |-> view.arrived[d][Len(view.arrived[d]) + 1 - i]]

\* Six live arrivals of one device, and its window holds the last five.
C18_Witness ==
  /\ view.last.op = "handleNewPoint"
  /\ "d1" \in DOMAIN view.arrived
  /\ Len(view.arrived["d1"]) = 6
  /\ [i \in 1..5 |-> view.devicePoints["d1"][i].id] = <<"a6", "a5", "a4", "a3", "a2">>

InWindow(r) ==
  /\ r.device \in DOMAIN view.devicePoints
  /\ \E i \in DOMAIN view.devicePoints[r.device] : view.devicePoints[r.device][i] = r

\* C19: when fetchLastPointsForAllDevices has completed, the window of a
\* device contains every record that arrived live for it during the fetch (as
\* long as these are no more than a window holds).
C19_LiveArrivalSurvivesRefresh ==
  (view.last.op = "fetched" /\ Cardinality(view.live) <= WindowCap) =>
    \A r \in view.live : InWindow(r)

\* The great-circle distance between the points two records decrypt to.
PointDistance(p, q) == calculateDistance(p.lat, p.lon, q.lat, q.lon)

\* The reference filter: the first point is kept, each later one if and only
\* if it is at most 150 m from the point kept last.
RECURSIVE ReferenceFrom(_, _, _)
ReferenceFrom(points, i, kept) ==
  IF i > Len(points) THEN kept
  ELSE ReferenceFrom(points, i + 1,
                     IF PointDistance(kept[Len(kept)], points[i]) <= 150
                     THEN Append(kept, points[i])
                     ELSE kept)

ReferencePath(points) == ReferenceFrom(points, 2, <<points[1]>>)

\* C20: after filterPointsByDistance has run, the filtered path of every
\* window with points is the reference filter of the window.
C20_FilteredPathIsReference ==
  view.last.op \in {"handleNewPoint", "fetched"} =>
    \A d \in DOMAIN view.devicePoints :
      Len(view.devicePoints[d]) > 0 =>
        /\ d \in DOMAIN view.filteredPoints
        /\ view.filteredPoints[d] = ReferencePath(view.devicePoints[d])

\* The window of the first device is [p2, p1, p0]: p0 at (0, 0), p1 at
\* (0, 0.001) and p2 at (0, 5) arrived in this order.
ExampleWindow ==
  /\ "d1" \in DOMAIN view.devicePoints
  /\ Len(view.devicePoints["d1"]) = 3
  /\ [i \in 1..3 |-> view.devicePoints["d1"][i].lon] = <<5000, 1, 0>>

\* C21: filtering the window [p2, p1, p0] with the threshold 150 m gives
\* exactly [p2].
C21_ExampleFiltersToNewest ==
  (view.last.op = "handleNewPoint" /\ ExampleWindow) =>
    /\ "d1" \in DOMAIN view.filteredPoints
    /\ view.filteredPoints["d1"] = <<view.devicePoints["d1"][1]>>

\* The last step ended with a run of filterPointsByDistance.
FilterRan == view.last.op \in {"handleNewPoint", "fetched", "filterPointsByDistance"}

C23_OnlyCiphertextEventsUpdate ==
  [][(feed'.event # NoEvent
        /\ (feed'.updates > 0 \/ view'.devicePoints # view.devicePoints))
       => /\ feed'.event.action \in {"CREATE", "UPDATE"}
          /\ feed'.event.encrypted = "value"
          /\ \E x \in feed.subs : x.device = feed'.event.result.device]_vars

\* A closeAllLiveQueries has just returned or thrown.
CloseReturned == feed.closed.id # 0

\* C24: closeAllLiveQueries has asked the database to kill every live query
\* that was in liveQueries when it was called, has not thrown, and leaves
\* liveQueries empty.
C24_CloseAllAttemptsAll ==
  CloseReturned =>
    /\ feed.closed.tracked \subseteq feed.closed.attempted
    /\ ~feed.closed.threw
    /\ feed.closed.left = {}

\* C24 for a call that may overlap another one: it has not thrown and leaves
\* liveQueries empty; when no other call was in flight while it ran, it has
\* asked the database to kill every live query tracked when it was called.
C24_CloseAllAloneAttemptsAll ==
  CloseReturned =>
    /\ feed.closed.alone => feed.closed.tracked \subseteq feed.closed.attempted
    /\ ~feed.closed.threw
    /\ feed.closed.left = {}

\* A call with two tracked live queries, the first of which the database
\* failed to kill.
C24_Witness ==
  /\ CloseReturned
  /\ feed.closed.alone
  /\ Cardinality(feed.closed.tracked) = 2
  /\ \E u \in feed.closed.failed, w \in feed.closed.attempted \ feed.closed.failed : u < w

\* C25: every live query the database holds is in liveQueries, there is at
\* most one for a device, and a notification calls handleNewPoint at most
\* once.
C25_LiveQueriesTracked ==
  /\ \A x \in feed.subs : x.uuid \in MapValues(feed.entries)
  /\ \A x, y \in feed.subs : x.device = y.device => x = y
  /\ feed.updates <= 1

\* C26: when a call of the gateway made by fetchTrackedDevices or by
\* fetchLastPointsForAllDevices, the nested fetch of the devices included,
\* has failed, state.error is not null when the operation returns.
C26_FailureSurfaced ==
  feed.returned.failed => feed.error # NoError

\* The record has the outcome Decrypted.
Decrypted(r) ==
  r.id \in DOMAIN view.decryptionResults /\ view.decryptionResults[r.id].success

\* C27: after filterPointsByDistance has run, two consecutive points of a
\* filtered path are at least 150 m apart, and the path begins with the
\* newest decrypted point of the window.
C27_KeptPointsApart ==
  view.last.op \in {"handleNewPoint", "fetched"} =>
    \A d \in DOMAIN view.filteredPoints :
      /\ \A i \in 1..(Len(view.filteredPoints[d]) - 1) :
           PointDistance(view.filteredPoints[d][i], view.filteredPoints[d][i + 1])
             >= MaxDistance
      /\ \A i \in 1..Len(view.devicePoints[d]) :
           (Decrypted(view.devicePoints[d][i])
              /\ \A j \in 1..(i - 1) : ~Decrypted(view.devicePoints[d][j]))
             => view.filteredPoints[d][1] = view.devicePoints[d][i]

\* The record has the outcome Failed.
Failed(r) ==
  r.id \in DOMAIN view.decryptionResults /\ ~view.decryptionResults[r.id].success

\* C28: no point of state.filteredPoints is a record whose decryption
\* failed; such a record is neither kept nor the first (reference) point.
C28_FailedNeverFiltered ==
  \A d \in DOMAIN view.filteredPoints :
    \A i \in 1..Len(view.filteredPoints[d]) : ~Failed(view.filteredPoints[d][i])

\* The points of mapData that belong to a device.
MapDataOf(d) == SelectSeq(mapData(view), LAMBDA p : p.device = d)

\* C29: after a refresh or a live arrival, the points of mapData of a device
\* whose window points all have a Decrypted outcome with coordinates other
\* than 0 are the filtered path of the device, oldest first.
C29_MapDataOldestFirst ==
  view.last.op \in {"handleNewPoint", "fetched"} =>
    \A d \in DOMAIN view.devicePoints :
      (/\ Len(view.devicePoints[d]) > 0
       /\ \A i \in 1..Len(view.devicePoints[d]) :
            Mappable(view.devicePoints[d][i], view.decryptionResults))
        => MapDataOf(d) = Reverse(ReferencePath(view.devicePoints[d]))

\* What decryptOwnTracksData returns for a record under the password of the
\* vault.
CipherResult(item) ==
  decryptOwnTracksDataCached(item.content, Field(store.credentials, K_decryptionPassword),
                             sodiumReady)

\* C30: a record the last pass handed to the cipher, whose ciphertext
\* decrypted and whose plaintext parsed, has the outcome Decrypted with the
\* parsed value (as formatJson writes it), whatever JSON value that is.
C30_ParsedValueIsDecrypted ==
  \A i \in DOMAIN view.last.items :
    (/\ view.last.unlocked
     /\ view.last.items[i].id \in view.last.wrote
     /\ ~CipherResult(view.last.items[i]).threw
     /\ CipherResult(view.last.items[i]).success)
      => /\ view.decryptionResults[view.last.items[i].id].success
         /\ view.decryptionResults[view.last.items[i].id].data
              = formatJsonCached(CipherResult(view.last.items[i]).data)

\* C31: when fetchLastPointsForAllDevices is not between two awaits,
\* state.filteredPoints is filterPointsByDistance of the current windows: an
\* entry for every device with a non-empty window, none for another device.
C31_FilteredMatchesWindows ==
  ~view.fetching =>
    /\ view.filteredPoints = filterPointsByDistance(view.devicePoints)
    /\ DOMAIN view.filteredPoints
         = {d \in DOMAIN view.devicePoints : Len(view.devicePoints[d]) > 0}

\* C32: isLoaded goes from false to true only in a saveCredentials or a
\* loadCredentials that returns true, and from true to false only in
\* clearCredentials or in a loadCredentials that returns false; a
\* saveCredentials that returns false and hasStoredCredentials leave it as it
\* is.
C32_LockStateTransitions ==
  [][/\ (~store.isLoaded /\ store'.isLoaded)
          => (call'.op \in {"saveCredentials", "loadCredentials"} /\ call'.ret = "true")
     /\ (store.isLoaded /\ ~store'.isLoaded)
          => \/ call'.op = "clearCredentials"
             \/ (call'.op = "loadCredentials" /\ call'.ret = "false")
     /\ ((call'.op = "saveCredentials" /\ call'.ret = "false")
           \/ call'.op = "hasStoredCredentials")
          => store'.isLoaded = store.isLoaded]_vars

\* A loadCredentials with a wrong password has locked a vault that a
\* saveCredentials had unlocked.
C32_Witness ==
  /\ call.op = "loadCredentials"
  /\ call.ret = "false"
  /\ hist.state = "saved"
  /\ store.credentials = hist.credentials
  /\ store.encryptedData # <<>>
  /\ ~store.isLoaded

\* C35: a saveCredentials that returns false sets the error and leaves the
\* persisted blob, the in-memory credentials and isLoaded as they were before
\* the call.
C35_FailedSaveChangesNothing ==
  [][(call'.op = "saveCredentials" /\ call'.ret = "false")
       => /\ store'.error # NoError
          /\ store'.encryptedData = store.encryptedData
          /\ store'.credentials = store.credentials
          /\ store'.isLoaded = store.isLoaded]_vars

\* C33: every window is ordered by timestamp, newest first, and holds the
\* most recent records of its device: a stored record of the device that is
\* not in the window is no newer than any record of the window.
C33_WindowsMostRecentFirst ==
  \A d \in DOMAIN view.devicePoints :
    /\ \A i, j \in DOMAIN view.devicePoints[d] :
         i < j => view.devicePoints[d][i].tst >= view.devicePoints[d][j].tst
    /\ \A r \in view.db :
         (r.device = d /\ r.content # <<>> /\ ~InWindow(r))
           => \A i \in DOMAIN view.devicePoints[d] : r.tst <= view.devicePoints[d][i].tst

\* C34: no window holds two records with the same id.
C34_NoDuplicateIds ==
  \A d \in DOMAIN view.devicePoints :
    \A i, j \in DOMAIN view.devicePoints[d] :
      i # j => view.devicePoints[d][i].id # view.devicePoints[d][j].id

\* C36: when neither connect() nor the watcher that called it awaits
\* anything, state.connected equals the connected flag of the gateway; and
\* the watcher never calls connect() while the gateway is connected.
C36_ConnectedFlagsAgree ==
  feed.pending = "" => feed.connected = connected

====
